---- MODULE Spec2Model ----
(***************************************************************************)
(* Persistence and synchronisation layer of the subscription tracker:      *)
(* the browser's localStorage cache, the Supabase `subscriptions` table,   *)
(* the one-time migration between them and the load/save facade.           *)
(*                                                                         *)
(* The model is the client-side execution context (typeof window is not    *)
(* 'undefined').  A remote call that "fails" stands for every way the      *)
(* Supabase client yields an error (module not loadable, transport error,  *)
(* row-level-security or constraint rejection): the statement is not       *)
(* applied and the adapter sees `error`.                                   *)
(***************************************************************************)
EXTENDS Integers, Sequences, FiniteSets, TLC

\* ------------------------------------------------------------------ bounds
MaxUuid == 3       \* number of row ids the database hands out in one run
UnitsPerDay == 2   \* clock resolution: time units in one calendar day
DaysPerMonth == 5  \* length of a month of the calendar the views compute with
MonthsPerYear == 2 \* months in a year of that calendar
MaxShown == 2      \* length of the longest list a view computes over

\* ------------------------------------------------------------ value space
UserIds == {"u1", "u2"}              \* Supabase auth.users ids
UserKeys == {"u1", "alice"}          \* user.id || user.username
SessionIds == {"u1"}                 \* the identity signed in in this browser
NoId == ""                           \* userId omitted (falsy)

\* Client-side ids are Date.now().toString(); database ids are UUIDs.
ClientId(n) == <<"ts", n>>
Uuid(n) == <<"uuid", n>>
ValidUuid(id) == id[1] = "uuid"

Sub1 ==
  [id |-> ClientId(1), name |-> "Netflix", cost |-> 1000,
   renewalDate |-> 5 * UnitsPerDay, cycle |-> "Monthly",
   status |-> "Active", category |-> "Entertainment"]
Sub2 ==
  [id |-> ClientId(2), name |-> "Figma", cost |-> 12000,
   renewalDate |-> 3 * UnitsPerDay, cycle |-> "Annually",
   status |-> "Trial", category |-> "Design"]
Pool == {Sub1, Sub2}

\* The lists callers pass to save; <<Sub1, Sub2>> is not in renewal-date order.
SubLists == {<<>>, <<Sub1>>, <<Sub2>>, <<Sub1, Sub2>>}

\* ------------------------------------------------------- date conversions
\* A Date is a count of time units since the epoch (UTC).
\* A date written in a local time one unit behind UTC instead of in UTC.
toISOString_LocalTime(d) == <<(d - 1) \div UnitsPerDay, (d - 1) % UnitsPerDay>>

\* Date.prototype.toISOString(): "<date>T<time>Z", kept as <<date, time>>.
toISOString(d) == <<d \div UnitsPerDay, d % UnitsPerDay>>
\* new Date("<date>T<time>Z")
DateFromISO(iso) == iso[1] * UnitsPerDay + iso[2]
\* toISOString().split('T')[0]: the calendar date alone
DateColumn(d) == toISOString(d)[1]
\* new Date("<date>"): midnight UTC of that date
DateFromColumn(day) == day * UnitsPerDay

\* ------------------------------------------------------------ localStorage
\* An entry of localStorage under `subscriptions_<username>`.
NoEntry == [kind |-> "absent", items |-> <<>>]
CorruptEntry == [kind |-> "corrupt", items |-> <<>>]
JsonEntry(items) == [kind |-> "json", items |-> items]
NoCategory == ""
\* What an older version of the page stored: no category field.
LegacyItem ==
  [id |-> ClientId(1), name |-> "Netflix", cost |-> 1000,
   renewalDate |-> toISOString(5 * UnitsPerDay), cycle |-> "Monthly",
   status |-> "Active", category |-> NoCategory]

getStorageKey(username) == username

\* Two execution contexts of one browser: two tabs, or a page's first load
\* and its focus handler.  They share localStorage and the database.
Contexts == {"tab1", "tab2"}
NoSubs == <<>>
\* A context that is in no facade call.
IdleFlight ==
  [pc |-> "idle", op |-> "none", userKey |-> "", userId |-> NoId,
   subs |-> NoSubs, ok |-> TRUE, list |-> NoSubs]

\* localStorage, key users.
NoUsers == [kind |-> "absent", list |-> <<>>]
\* localStorage, key notification_settings.
NoLocalSettings == [kind |-> "absent", emailEnabled |-> FALSE, timeframe |-> ""]

VARIABLES
  cache,      \* localStorage, keys subscriptions_<username>
  marker,     \* localStorage, keys migrated_to_db_<userId>: ids whose flag is set
  remote,     \* rows of the Supabase table `subscriptions`
  nextUuid,   \* the next id uuid_generate_v4() hands out
  currentUser, \* localStorage, key currentUser
  oldData,    \* localStorage, key subscriptions (the list before per-user keys)
  session,    \* the session the Supabase auth client holds
  locationHash, \* window.location.hash
  view,       \* what a page last computed from its subscriptions, and from what
  settingsRows,  \* rows of the Supabase table `notification_settings`
  settingsCalls, \* the saveNotificationSettingsToDB calls in flight
  last,       \* the call that just returned: arguments, outcome, remote calls made
  logDetail,  \* whether `last` keeps more of a call than its name
  inFlight,   \* per execution context: the facade call it is in and where
  users,      \* localStorage, key users: the registry of local users
  localSettings \* localStorage, key notification_settings

subscriptionVars == <<cache, marker, remote, nextUuid, inFlight>>
identityVars == <<currentUser, oldData, session, locationHash, users>>
settingsVars == <<settingsRows, settingsCalls, localSettings>>
vars == <<subscriptionVars, identityVars, view, settingsVars, last, logDetail>>

\* The part of the state the handlers read and write.
St == [cache |-> cache, marker |-> marker, remote |-> remote, nextUuid |-> nextUuid]

\* One remote call and whether it returned without `error`.
Call(op, ok) == [op |-> op, ok |-> ok]

\* -------------------------------------------------------- Local Cache Store
\* loadSubscriptionsLocal: absent -> [], unparsable -> [], else the parsed
\* items with renewalDate revived and a missing category defaulted.
loadSubscriptionsLocal(st, username) ==
  LET stored == st.cache[getStorageKey(username)] IN
  IF stored.kind = "absent" THEN <<>>
  ELSE IF stored.kind = "corrupt" THEN <<>>
  ELSE [i \in 1..Len(stored.items) |->
          [stored.items[i] EXCEPT
             !.renewalDate = DateFromISO(@),
             !.category = IF @ = NoCategory THEN "Software" ELSE @]]

\* saveSubscriptionsLocal: JSON of the list with renewalDate as ISO string.
saveSubscriptionsLocal(st, subscriptions, username) ==
  LET serialized == [i \in 1..Len(subscriptions) |->
                       [subscriptions[i] EXCEPT !.renewalDate = toISOString(@)]]
  IN [st EXCEPT !.cache[getStorageKey(username)] = JsonEntry(serialized)]

\* ------------------------------------------------------ Remote Store Adapter
RowsOf(rows, userId) == {r \in rows : r.user_id = userId}

\* .order('renewal_date', {ascending: true}): every row once, dates ascending;
\* the order of rows with equal dates is the database's choice.
OrderByRenewalDate(rows) ==
  {s \in [1..Cardinality(rows) -> rows] :
     /\ \A i, j \in DOMAIN s : i # j => s[i] # s[j]
     /\ \A i, j \in DOMAIN s : i < j => s[i].renewal_date <= s[j].renewal_date}

\* DatabaseSubscription -> Subscription
FromRow(sub) ==
  [id |-> sub.id, name |-> sub.name, cost |-> sub.cost,
   renewalDate |-> DateFromColumn(sub.renewal_date), cycle |-> sub.cycle,
   status |-> sub.status, category |-> sub.category]

\* loadSubscriptionsFromDB: the lists the call may return.  `ok` is whether
\* the select returned without error; on error the adapter returns [].
loadSubscriptionsFromDB(st, userId, ok) ==
  IF ~ok THEN {<<>>}
  ELSE {[i \in DOMAIN data |-> FromRow(data[i])] :
          data \in OrderByRenewalDate(RowsOf(st.remote, userId))}

\* The rows inserted by saveSubscriptionsToDB: no id is sent, the database
\* assigns uuid_generate_v4() to each row.
InsertedRows(subscriptions, userId, first) ==
  {[id |-> Uuid(first + i - 1), user_id |-> userId,
    name |-> subscriptions[i].name, cost |-> subscriptions[i].cost,
    renewal_date |-> DateColumn(subscriptions[i].renewalDate),
    cycle |-> subscriptions[i].cycle, status |-> subscriptions[i].status,
    category |-> subscriptions[i].category] : i \in DOMAIN subscriptions}

\* saveSubscriptionsToDB with the delete not filtered by user_id.
saveSubscriptionsToDB_DeleteUnscoped(st, subscriptions, userId, f) ==
  IF ~f[1]
    THEN [st |-> st, ok |-> FALSE, calls |-> <<Call("delete", FALSE)>>]
    ELSE
      LET deleted == [st EXCEPT !.remote = {}] IN
      IF Len(subscriptions) > 0
        THEN IF ~f[2]
               THEN [st |-> deleted, ok |-> FALSE,
                     calls |-> <<Call("delete", TRUE), Call("insert", FALSE)>>]
               ELSE [st |-> [deleted EXCEPT
                               !.remote = @ \cup InsertedRows(subscriptions, userId, st.nextUuid),
                               !.nextUuid = @ + Len(subscriptions)],
                     ok |-> TRUE,
                     calls |-> <<Call("delete", TRUE), Call("insert", TRUE)>>]
        ELSE [st |-> deleted, ok |-> TRUE, calls |-> <<Call("delete", TRUE)>>]

\* saveSubscriptionsToDB: delete every row of the user, then insert the list.
\* f[1], f[2]: whether the delete and the insert return without error.
saveSubscriptionsToDB(st, subscriptions, userId, f) ==
  IF ~f[1]
    THEN [st |-> st, ok |-> FALSE, calls |-> <<Call("delete", FALSE)>>]
    ELSE
      LET deleted == [st EXCEPT !.remote = @ \ RowsOf(@, userId)] IN
      IF Len(subscriptions) > 0
        THEN IF ~f[2]
               THEN [st |-> deleted, ok |-> FALSE,
                     calls |-> <<Call("delete", TRUE), Call("insert", FALSE)>>]
               ELSE [st |-> [deleted EXCEPT
                               !.remote = @ \cup InsertedRows(subscriptions, userId, st.nextUuid),
                               !.nextUuid = @ + Len(subscriptions)],
                     ok |-> TRUE,
                     calls |-> <<Call("delete", TRUE), Call("insert", TRUE)>>]
        ELSE [st |-> deleted, ok |-> TRUE, calls |-> <<Call("delete", TRUE)>>]

\* saveSubscriptionToDB: select the row by id and user, then update or insert.
\* f[1]: the select, f[2]: the update or insert.  The id column is a UUID
\* primary key: a value that is no UUID, or an id another row holds, is an error.
saveSubscriptionToDB(st, subscription, userId, f) ==
  LET found == {r \in RowsOf(st.remote, userId) : r.id = subscription.id}
      existing == f[1] /\ ValidUuid(subscription.id) /\ found # {}
      dbSubscription ==
        [id |-> subscription.id, user_id |-> userId,
         name |-> subscription.name, cost |-> subscription.cost,
         renewal_date |-> DateColumn(subscription.renewalDate),
         cycle |-> subscription.cycle, status |-> subscription.status,
         category |-> subscription.category]
      sel == Call("select", existing)
  IN
  IF existing
    THEN IF ~f[2]
           THEN [st |-> st, ok |-> FALSE, calls |-> <<sel, Call("update", FALSE)>>]
           ELSE [st |-> [st EXCEPT !.remote = (@ \ found) \cup {dbSubscription}],
                 ok |-> TRUE, calls |-> <<sel, Call("update", TRUE)>>]
    ELSE IF \/ ~f[2]
            \/ ~ValidUuid(subscription.id)
            \/ \E r \in st.remote : r.id = subscription.id
           THEN [st |-> st, ok |-> FALSE, calls |-> <<sel, Call("insert", FALSE)>>]
           ELSE [st |-> [st EXCEPT !.remote = @ \cup {dbSubscription}],
                 ok |-> TRUE, calls |-> <<sel, Call("insert", TRUE)>>]

\* deleteSubscriptionFromDB: delete the row with this id and user.
deleteSubscriptionFromDB(st, subscriptionId, userId, f) ==
  IF ~f[1] \/ ~ValidUuid(subscriptionId)
    THEN [st |-> st, ok |-> FALSE, calls |-> <<Call("delete", FALSE)>>]
    ELSE [st |-> [st EXCEPT !.remote =
                    {r \in @ : ~(r.id = subscriptionId /\ r.user_id = userId)}],
          ok |-> TRUE, calls |-> <<Call("delete", TRUE)>>]

\* ---------------------------------------------------------- Migration Engine
\* migrateSubscriptionsToDB without the check of the flag.
migrateSubscriptionsToDB_NoMarkerCheck(st, userId, username, f) ==
  LET localSubs == loadSubscriptionsLocal(st, username) IN
  IF Len(localSubs) > 0
    THEN LET r == saveSubscriptionsToDB(st, localSubs, userId, f) IN
         IF r.ok
           THEN [st |-> [r.st EXCEPT !.marker = @ \cup {userId}],
                 calls |-> r.calls, wrote |-> {"marker"}]
           ELSE [st |-> r.st, calls |-> r.calls, wrote |-> {}]
    ELSE [st |-> [st EXCEPT !.marker = @ \cup {userId}],
          calls |-> <<>>, wrote |-> {"marker"}]

\* migrateSubscriptionsToDB setting the flag whatever the save returned.
migrateSubscriptionsToDB_MarksOnFailure(st, userId, username, f) ==
  IF userId \in st.marker
    THEN [st |-> st, calls |-> <<>>, wrote |-> {}]
    ELSE
      LET localSubs == loadSubscriptionsLocal(st, username) IN
      IF Len(localSubs) > 0
        THEN LET r == saveSubscriptionsToDB(st, localSubs, userId, f) IN
             [st |-> [r.st EXCEPT !.marker = @ \cup {userId}],
              calls |-> r.calls, wrote |-> {"marker"}]
        ELSE [st |-> [st EXCEPT !.marker = @ \cup {userId}],
              calls |-> <<>>, wrote |-> {"marker"}]

\* migrateSubscriptionsToDB never setting the flag for an empty cache.
migrateSubscriptionsToDB_NoMarkOnEmpty(st, userId, username, f) ==
  IF userId \in st.marker
    THEN [st |-> st, calls |-> <<>>, wrote |-> {}]
    ELSE
      LET localSubs == loadSubscriptionsLocal(st, username) IN
      IF Len(localSubs) > 0
        THEN LET r == saveSubscriptionsToDB(st, localSubs, userId, f) IN
             IF r.ok
               THEN [st |-> [r.st EXCEPT !.marker = @ \cup {userId}],
                     calls |-> r.calls, wrote |-> {"marker"}]
               ELSE [st |-> r.st, calls |-> r.calls, wrote |-> {}]
        ELSE [st |-> st, calls |-> <<>>, wrote |-> {}]

\* migrateSubscriptionsToDB removing the cache entry it has copied.
migrateSubscriptionsToDB_ClearsCache(st, userId, username, f) ==
  IF userId \in st.marker
    THEN [st |-> st, calls |-> <<>>, wrote |-> {}]
    ELSE
      LET localSubs == loadSubscriptionsLocal(st, username) IN
      IF Len(localSubs) > 0
        THEN LET r == saveSubscriptionsToDB(st, localSubs, userId, f) IN
             IF r.ok
               THEN [st |-> [r.st EXCEPT !.marker = @ \cup {userId},
                                         !.cache[getStorageKey(username)] = NoEntry],
                     calls |-> r.calls, wrote |-> {"marker"}]
               ELSE [st |-> r.st, calls |-> r.calls, wrote |-> {}]
        ELSE [st |-> [st EXCEPT !.marker = @ \cup {userId}],
              calls |-> <<>>, wrote |-> {"marker"}]

\* migrateSubscriptionsToDB that copies the cache but sets the flag only when
\* the cache is empty.
migrateSubscriptionsToDB_NoMarkOnCopy(st, userId, username, f) ==
  IF userId \in st.marker
    THEN [st |-> st, calls |-> <<>>, wrote |-> {}]
    ELSE
      LET localSubs == loadSubscriptionsLocal(st, username) IN
      IF Len(localSubs) > 0
        THEN LET r == saveSubscriptionsToDB(st, localSubs, userId, f) IN
             [st |-> r.st, calls |-> r.calls, wrote |-> {}]
        ELSE [st |-> [st EXCEPT !.marker = @ \cup {userId}],
              calls |-> <<>>, wrote |-> {"marker"}]

\* migrateSubscriptionsToDB: skip when the flag is set; copy the cache under
\* `username` with saveSubscriptionsToDB; set the flag on success or when the
\* cache is empty.
migrateSubscriptionsToDB(st, userId, username, f) ==
  IF userId \in st.marker
    THEN [st |-> st, calls |-> <<>>, wrote |-> {}]
    ELSE
      LET localSubs == loadSubscriptionsLocal(st, username) IN
      IF Len(localSubs) > 0
        THEN LET r == saveSubscriptionsToDB(st, localSubs, userId, f) IN
             IF r.ok
               THEN [st |-> [r.st EXCEPT !.marker = @ \cup {userId}],
                     calls |-> r.calls, wrote |-> {"marker"}]
               ELSE [st |-> r.st, calls |-> r.calls, wrote |-> {}]
        ELSE [st |-> [st EXCEPT !.marker = @ \cup {userId}],
              calls |-> <<>>, wrote |-> {"marker"}]

\* --------------------------------------------------------- Persistence Facade
\* loadSubscriptions without the test of the flag: an empty answer always
\* sends it to the cache and the migration.
loadSubscriptions_IgnoresMarker(st, userKey, userId, f) ==
  IF userId # NoId
    THEN UNION {
      IF Len(dbSubs) > 0
        THEN {[st |-> st, list |-> dbSubs,
               calls |-> <<Call("select", f[1])>>, wrote |-> {}]}
        ELSE
          LET localSubs == loadSubscriptionsLocal(st, userKey) IN
          IF Len(localSubs) > 0
            THEN LET m == migrateSubscriptionsToDB(st, userId, userKey, <<f[2], f[3]>>) IN
                 {[st |-> m.st, list |-> again,
                   calls |-> <<Call("select", f[1])>> \o m.calls \o <<Call("select", f[4])>>,
                   wrote |-> m.wrote] :
                    again \in loadSubscriptionsFromDB(m.st, userId, f[4])}
            ELSE {[st |-> st, list |-> dbSubs,
                   calls |-> <<Call("select", f[1])>>, wrote |-> {}]}
      : dbSubs \in loadSubscriptionsFromDB(st, userId, f[1])}
    ELSE {[st |-> st, list |-> loadSubscriptionsLocal(st, userKey),
           calls |-> <<>>, wrote |-> {}]}

\* loadSubscriptions: the outcomes the call may have.  f[1]: the first select,
\* f[2], f[3]: the migration's delete and insert, f[4]: the second select.
loadSubscriptions(st, userKey, userId, f) ==
  IF userId # NoId
    THEN UNION {
      IF Len(dbSubs) > 0 \/ userId \in st.marker
        THEN {[st |-> st, list |-> dbSubs,
               calls |-> <<Call("select", f[1])>>, wrote |-> {}]}
        ELSE
          LET localSubs == loadSubscriptionsLocal(st, userKey) IN
          IF Len(localSubs) > 0
            THEN LET m == migrateSubscriptionsToDB(st, userId, userKey, <<f[2], f[3]>>) IN
                 {[st |-> m.st, list |-> again,
                   calls |-> <<Call("select", f[1])>> \o m.calls \o <<Call("select", f[4])>>,
                   wrote |-> m.wrote] :
                    again \in loadSubscriptionsFromDB(m.st, userId, f[4])}
            ELSE {[st |-> st, list |-> dbSubs,
                   calls |-> <<Call("select", f[1])>>, wrote |-> {}]}
      : dbSubs \in loadSubscriptionsFromDB(st, userId, f[1])}
    ELSE {[st |-> st, list |-> loadSubscriptionsLocal(st, userKey),
           calls |-> <<>>, wrote |-> {}]}

\* saveSubscriptions writing localStorage also after a successful database save.
saveSubscriptions_AlwaysWritesCache(st, subscriptions, userKey, userId, f) ==
  IF userId # NoId
    THEN LET r == saveSubscriptionsToDB(st, subscriptions, userId, f) IN
         [st |-> saveSubscriptionsLocal(r.st, subscriptions, userKey),
          calls |-> r.calls, wrote |-> {"cache"}]
    ELSE [st |-> saveSubscriptionsLocal(st, subscriptions, userKey),
          calls |-> <<>>, wrote |-> {"cache"}]

\* saveSubscriptions: the database when a userId is given, localStorage when
\* it is not or when the database save reports failure.
saveSubscriptions(st, subscriptions, userKey, userId, f) ==
  IF userId # NoId
    THEN LET r == saveSubscriptionsToDB(st, subscriptions, userId, f) IN
         IF r.ok
           THEN [st |-> r.st, calls |-> r.calls, wrote |-> {}]
           ELSE [st |-> saveSubscriptionsLocal(r.st, subscriptions, userKey),
                 calls |-> r.calls, wrote |-> {"cache"}]
    ELSE [st |-> saveSubscriptionsLocal(st, subscriptions, userKey),
          calls |-> <<>>, wrote |-> {"cache"}]

\* ---------------------------------------------------------- Identity Resolver
\* An entry of localStorage under `currentUser`.
NoCurrentUser == [kind |-> "absent", username |-> ""]
CorruptCurrentUser == [kind |-> "corrupt", username |-> ""]
StoredUser(username) == [kind |-> "json", username |-> username]

\* CurrentUser | null.  A local user has no id.
Null == [username |-> "", id |-> NoId]
LocalUsers == {"alice"}              \* usernames registered under `users`
NoSession == "none"
\* user.email?.split('@')[0]
EmailName(id) == IF id = "u1" THEN "alice" ELSE "bob"

\* window.location.hash: nothing, the tokens of an OAuth redirect (they are
\* u1's), or an error parameter.
Hashes == {"none", "tokens", "error"}
\* A call of the auth client returns data, returns `error`, or throws.
Outcomes == {"ok", "error", "throw"}
\* What the calls of one getSupabaseUser, logoutUser, signInWithGoogle do.
ResolvePlans ==
  [import : BOOLEAN, setSession : Outcomes, getSession : Outcomes, getUser : Outcomes]
SignOutPlans == [import : BOOLEAN, signOut : Outcomes]
SignInPlans == [import : BOOLEAN, signInWithOAuth : Outcomes]

\* getSupabaseUser with the exceptions of the auth client not caught.
getSupabaseUser_NoCatch(s, hash, p) ==
  LET none(calls, s2, raised) ==
        [user |-> Null, session |-> s2, hash |-> hash, raised |-> raised,
         calls |-> calls]
      imp == <<Call("import", p.import)>>
  IN
  IF ~p.import THEN none(imp, s, FALSE)
  ELSE IF hash = "error" THEN none(imp, s, FALSE)
  ELSE
    LET withTokens == hash = "tokens"
        c1 == IF withTokens
                THEN imp \o <<Call("setSession", p.setSession = "ok")>> ELSE imp
        s1 == IF withTokens /\ p.setSession = "ok" THEN "u1" ELSE s
        h1 == IF withTokens /\ p.setSession = "ok" THEN "none" ELSE hash
        c2 == c1 \o <<Call("getSession", p.getSession = "ok")>>
        c3 == c2 \o <<Call("getUser", p.getUser = "ok")>>
    IN
    IF withTokens /\ p.setSession = "throw" THEN none(c1, s, TRUE)
    ELSE IF p.getSession = "throw" THEN [none(c2, s1, TRUE) EXCEPT !.hash = h1]
    ELSE IF p.getSession = "error" \/ s1 = NoSession
      THEN [none(c2, s1, FALSE) EXCEPT !.hash = h1]
    ELSE IF p.getUser = "throw" THEN [none(c3, s1, TRUE) EXCEPT !.hash = h1]
    ELSE IF p.getUser = "error" THEN [none(c3, s1, FALSE) EXCEPT !.hash = h1]
    ELSE [user |-> [username |-> EmailName(s1), id |-> s1], session |-> s1,
          hash |-> h1, raised |-> FALSE, calls |-> c3]

\* getSupabaseUser: load the client; an error parameter in the URL hash ends
\* it; tokens in the hash are given to setSession (an error is logged only,
\* on success the hash is cleared); then getSession and getUser.  Everything
\* thrown is caught and yields null.  `s` is the session the client holds;
\* the result carries the session and the hash left.
getSupabaseUser(s, hash, p) ==
  LET none(calls, s2) ==
        [user |-> Null, session |-> s2, hash |-> hash, raised |-> FALSE,
         calls |-> calls]
      imp == <<Call("import", p.import)>>
  IN
  IF ~p.import THEN none(imp, s)
  ELSE IF hash = "error" THEN none(imp, s)
  ELSE
    LET withTokens == hash = "tokens"
        c1 == IF withTokens
                THEN imp \o <<Call("setSession", p.setSession = "ok")>> ELSE imp
        s1 == IF withTokens /\ p.setSession = "ok" THEN "u1" ELSE s
        h1 == IF withTokens /\ p.setSession = "ok" THEN "none" ELSE hash
        c2 == c1 \o <<Call("getSession", p.getSession = "ok")>>
        c3 == c2 \o <<Call("getUser", p.getUser = "ok")>>
    IN
    IF withTokens /\ p.setSession = "throw" THEN none(c1, s)
    ELSE IF p.getSession = "throw" THEN [none(c2, s1) EXCEPT !.hash = h1]
    ELSE IF p.getSession = "error" \/ s1 = NoSession
      THEN [none(c2, s1) EXCEPT !.hash = h1]
    ELSE IF p.getUser = "throw" THEN [none(c3, s1) EXCEPT !.hash = h1]
    ELSE IF p.getUser = "error" THEN [none(c3, s1) EXCEPT !.hash = h1]
    ELSE [user |-> [username |-> EmailName(s1), id |-> s1], session |-> s1,
          hash |-> h1, raised |-> FALSE, calls |-> c3]

\* ------------------------------------------------------------ user registry
\* The user names and passwords typed into the registration form.
Usernames == {"", " ", "alice", "Alice", "bob"}
Passwords == {"abc", "abcd", "hunter2"}
\* String.prototype.trim() and toLowerCase() on these names; password.length.
trim(s) == IF s = " " THEN "" ELSE s
toLowerCase(s) == IF s = "Alice" THEN "alice" ELSE s
length(s) == IF s = "abc" THEN 3 ELSE IF s = "abcd" THEN 4 ELSE 7
MinPasswordLength == 4

CorruptUsers == [kind |-> "corrupt", list |-> <<>>]
\* getUsers: the parsed registry, [] when absent or unparsable.
getUsers(reg) == IF reg.kind = "json" THEN reg.list ELSE <<>>

\* registerUser comparing user names as typed.
registerUser_CaseSensitive(reg, username, password) ==
  IF trim(username) = ""
    THEN [users |-> reg, success |-> FALSE, error |-> "Username is required"]
  ELSE IF length(password) < MinPasswordLength
    THEN [users |-> reg, success |-> FALSE,
          error |-> "Password must be at least 4 characters"]
  ELSE
    LET registered == getUsers(reg) IN
    IF \E i \in DOMAIN registered : registered[i].username = username
      THEN [users |-> reg, success |-> FALSE, error |-> "Username already exists"]
      ELSE [users |-> [kind |-> "json",
                       list |-> Append(registered, [username |-> username,
                                                    password |-> password])],
            success |-> TRUE, error |-> ""]

\* registerUser: reject an empty name, a short password and a name already
\* registered (compared in lower case); else append the user and store the
\* registry.
registerUser(reg, username, password) ==
  IF trim(username) = ""
    THEN [users |-> reg, success |-> FALSE, error |-> "Username is required"]
  ELSE IF length(password) < MinPasswordLength
    THEN [users |-> reg, success |-> FALSE,
          error |-> "Password must be at least 4 characters"]
  ELSE
    LET registered == getUsers(reg) IN
    IF \E i \in DOMAIN registered :
         toLowerCase(registered[i].username) = toLowerCase(username)
      THEN [users |-> reg, success |-> FALSE, error |-> "Username already exists"]
      ELSE [users |-> [kind |-> "json",
                       list |-> Append(registered, [username |-> username,
                                                    password |-> password])],
            success |-> TRUE, error |-> ""]

\* getCurrentUser returning the username of an entry it could not parse.
getCurrentUser_TrustsEntry(stored) ==
  IF stored.kind = "absent" THEN Null
  ELSE [username |-> "alice", id |-> NoId]

\* getCurrentUser: the parsed `currentUser` entry, null when absent or unparsable.
getCurrentUser(stored) ==
  IF stored.kind = "absent" THEN Null
  ELSE IF stored.kind = "corrupt" THEN Null
  ELSE [username |-> stored.username, id |-> NoId]

\* getCurrentUserAsync: the Supabase user when there is one, after the
\* migration of the cache under its username; else the local user.
\* `migrated` is the username it gave to migrateSubscriptionsToDB.
\* f: the migration's delete and insert.
getCurrentUserAsync(st, s, stored, hash, p, f) ==
  LET sup == getSupabaseUser(s, hash, p) IN
  IF sup.raised
    THEN [st |-> st, session |-> sup.session, hash |-> sup.hash, user |-> Null,
          raised |-> TRUE, calls |-> sup.calls, wrote |-> {}, migrated |-> ""]
  ELSE IF sup.user # Null /\ sup.user.id # NoId
    THEN LET m == migrateSubscriptionsToDB(st, sup.user.id, sup.user.username, f) IN
         [st |-> m.st, session |-> sup.session, hash |-> sup.hash,
          user |-> sup.user, raised |-> FALSE,
          calls |-> sup.calls \o m.calls, wrote |-> m.wrote,
          migrated |-> sup.user.username]
    ELSE [st |-> st, session |-> sup.session, hash |-> sup.hash,
          user |-> getCurrentUser(stored),
          raised |-> FALSE, calls |-> sup.calls, wrote |-> {}, migrated |-> ""]

\* migrateOldSubscriptions that writes the user's key whatever it holds.
migrateOldSubscriptions_Overwrites(st, old, username) ==
  IF old.kind # "absent"
    THEN [st |-> [st EXCEPT !.cache[getStorageKey(username)] = old],
          oldData |-> NoEntry]
    ELSE [st |-> st, oldData |-> old]

\* migrateOldSubscriptions: move the list under `subscriptions` to the user's
\* key unless that key holds something; remove the old key.
migrateOldSubscriptions(st, old, username) ==
  IF old.kind # "absent"
    THEN [st |-> IF st.cache[getStorageKey(username)].kind = "absent"
                   THEN [st EXCEPT !.cache[getStorageKey(username)] = old]
                   ELSE st,
          oldData |-> NoEntry]
    ELSE [st |-> st, oldData |-> old]

\* loginUser: `found` is whether username and password match a registered user.
loginUser(st, stored, old, username, found) ==
  IF ~found
    THEN [st |-> st, currentUser |-> stored, oldData |-> old, success |-> FALSE]
    ELSE LET m == migrateOldSubscriptions(st, old, username) IN
         [st |-> m.st, currentUser |-> StoredUser(username), oldData |-> m.oldData,
          success |-> TRUE]

\* logoutUser: signOut when the client loads (what it throws is caught), then
\* remove `currentUser`.
logoutUser(s, p) ==
  [session |-> IF p.import /\ p.signOut = "ok" THEN NoSession ELSE s,
   currentUser |-> NoCurrentUser,
   calls |-> IF p.import
               THEN <<Call("import", TRUE), Call("signOut", p.signOut = "ok")>>
               ELSE <<Call("import", FALSE)>>]

\* signInWithGoogle: start the OAuth redirect.  `arrival` is the hash the
\* browser comes back with when the redirect was started.
signInWithGoogle(h, p, arrival) ==
  IF ~p.import
    THEN [hash |-> h, success |-> FALSE, calls |-> <<Call("import", FALSE)>>]
  ELSE IF p.signInWithOAuth = "ok"
    THEN [hash |-> arrival, success |-> TRUE,
          calls |-> <<Call("import", TRUE), Call("signInWithOAuth", TRUE)>>]
    ELSE [hash |-> h, success |-> FALSE,
          calls |-> <<Call("import", TRUE), Call("signInWithOAuth", FALSE)>>]

\* ---------------------------------------------------------- Derived Analytics
Categories == {"Software", "Shopping", "Design", "Storage", "Entertainment"}

\* Amounts are kept in twelfths of the cost unit, so that cost / 12 is exact.
Whole(cost) == 12 * cost
Twelfth(cost) == cost

\* Local time: `tz` is how many time units the browser's clock is behind UTC.
TimezoneOffsets == 0..(UnitsPerDay - 1)
LocalDay(d, tz) == (d - tz) \div UnitsPerDay
\* Date.setHours(0, 0, 0, 0): local midnight of the same local day
setHoursZero(d, tz) == LocalDay(d, tz) * UnitsPerDay + tz
getMonth(d, tz) == (LocalDay(d, tz) \div DaysPerMonth) % MonthsPerYear
getFullYear(d, tz) == LocalDay(d, tz) \div (DaysPerMonth * MonthsPerYear)

IsActive(sub) == sub.status = "Active"

\* calculateTotalMonthlyCost counting every subscription, Trial included.
calculateTotalMonthlyCost_CountsTrial(subscriptions) ==
  LET RECURSIVE reduce(_, _)
      reduce(s, total) ==
        IF s = <<>> THEN total
        ELSE reduce(Tail(s),
                    IF Head(s).cycle = "Monthly"
                      THEN total + Whole(Head(s).cost)
                      ELSE total + Twelfth(Head(s).cost))
  IN reduce(subscriptions, 0)

\* calculateTotalMonthlyCost: filter Active, then reduce from 0.
calculateTotalMonthlyCost(subscriptions) ==
  LET activeSubs == SelectSeq(subscriptions, IsActive)
      RECURSIVE reduce(_, _)
      reduce(s, total) ==
        IF s = <<>> THEN total
        ELSE reduce(Tail(s),
                    IF Head(s).cycle = "Monthly"
                      THEN total + Whole(Head(s).cost)
                      ELSE total + Twelfth(Head(s).cost))
  IN reduce(activeSubs, 0)

\* Array.prototype.sort with a comparator on `key`: stable.
RECURSIVE InsertByKey(_, _, _)
InsertByKey(x, sorted, key) ==
  IF sorted = <<>> THEN <<x>>
  ELSE IF key[Head(sorted)] <= key[x]
    THEN <<Head(sorted)>> \o InsertByKey(x, Tail(sorted), key)
    ELSE <<x>> \o sorted
RECURSIVE SortByKey(_, _)
SortByKey(s, key) ==
  IF s = <<>> THEN <<>>
  ELSE InsertByKey(s[Len(s)], SortByKey(SubSeq(s, 1, Len(s) - 1), key), key)

\* findUpcomingRenewals with the upper end of the window left out.
findUpcomingRenewals_OpenWindow(subscriptions, now, tz) ==
  LET today == setHoursZero(now, tz)
      sevenDaysFromNow == today + 7 * UnitsPerDay
      activeSubs == SelectSeq(subscriptions, IsActive)
      renewalDateNormalized == [i \in DOMAIN activeSubs |->
                                  setHoursZero(activeSubs[i].renewalDate, tz)]
      InWindow(i) == /\ renewalDateNormalized[i] >= today
                     /\ renewalDateNormalized[i] < sevenDaysFromNow
      indexes == [i \in DOMAIN activeSubs |-> i]
      sorted == SortByKey(SelectSeq(indexes, InWindow), renewalDateNormalized)
  IN [k \in DOMAIN sorted |-> activeSubs[sorted[k]]]

\* findUpcomingRenewals: Active subscriptions whose renewal date, set to
\* local midnight, lies in [today, today + 7 days], sorted by that date.
\* `now` is what new Date() returns.
findUpcomingRenewals(subscriptions, now, tz) ==
  LET today == setHoursZero(now, tz)
      sevenDaysFromNow == today + 7 * UnitsPerDay
      activeSubs == SelectSeq(subscriptions, IsActive)
      renewalDateNormalized == [i \in DOMAIN activeSubs |->
                                  setHoursZero(activeSubs[i].renewalDate, tz)]
      InWindow(i) == /\ renewalDateNormalized[i] >= today
                     /\ renewalDateNormalized[i] <= sevenDaysFromNow
      indexes == [i \in DOMAIN activeSubs |-> i]
      sorted == SortByKey(SelectSeq(indexes, InWindow), renewalDateNormalized)
  IN [k \in DOMAIN sorted |-> activeSubs[sorted[k]]]

\* getSpendingByCategory starting from an empty object.
getSpendingByCategory_NoZeroKeys(subscriptions) ==
  LET activeSubs == SelectSeq(subscriptions, IsActive)
      present == {activeSubs[i].category : i \in DOMAIN activeSubs}
      RECURSIVE forEach(_, _)
      forEach(s, categorySpending) ==
        IF s = <<>> THEN categorySpending
        ELSE forEach(Tail(s),
               [categorySpending EXCEPT ![Head(s).category] =
                  @ + (IF Head(s).cycle = "Monthly"
                         THEN Whole(Head(s).cost) ELSE Twelfth(Head(s).cost))])
  IN forEach(activeSubs, [c \in present |-> 0])

\* getSpendingByCategory: the five keys at 0, then each Active subscription
\* added to the key of its category.
getSpendingByCategory(subscriptions) ==
  LET activeSubs == SelectSeq(subscriptions, IsActive)
      RECURSIVE forEach(_, _)
      forEach(s, categorySpending) ==
        IF s = <<>> THEN categorySpending
        ELSE forEach(Tail(s),
               [categorySpending EXCEPT ![Head(s).category] =
                  @ + (IF Head(s).cycle = "Monthly"
                         THEN Whole(Head(s).cost) ELSE Twelfth(Head(s).cost))])
  IN forEach(activeSubs, [c \in Categories |-> 0])

\* calculateMonthlyRenewal comparing the month alone.
calculateMonthlyRenewal_AnyYear(subscriptions, date, tz) ==
  LET month == getMonth(date, tz)
      activeSubs == SelectSeq(subscriptions, IsActive)
      InMonth(sub) == getMonth(sub.renewalDate, tz) = month
      renewalsInMonth == SelectSeq(activeSubs, InMonth)
      RECURSIVE reduce(_, _)
      reduce(s, total) ==
        IF s = <<>> THEN total
        ELSE reduce(Tail(s),
                    IF Head(s).cycle = "Monthly"
                      THEN total + Whole(Head(s).cost)
                      ELSE total + Twelfth(Head(s).cost))
  IN reduce(renewalsInMonth, 0)

\* calculateMonthlyRenewal: Active subscriptions whose renewal date has the
\* local year and month of `date`, reduced as the monthly cost is.
calculateMonthlyRenewal(subscriptions, date, tz) ==
  LET year == getFullYear(date, tz)
      month == getMonth(date, tz)
      activeSubs == SelectSeq(subscriptions, IsActive)
      InMonth(sub) == /\ getFullYear(sub.renewalDate, tz) = year
                      /\ getMonth(sub.renewalDate, tz) = month
      renewalsInMonth == SelectSeq(activeSubs, InMonth)
      RECURSIVE reduce(_, _)
      reduce(s, total) ==
        IF s = <<>> THEN total
        ELSE reduce(Tail(s),
                    IF Head(s).cycle = "Monthly"
                      THEN total + Whole(Head(s).cost)
                      ELSE total + Twelfth(Head(s).cost))
  IN reduce(renewalsInMonth, 0)

\* The subscriptions a page computes over: both statuses and cycles, renewal
\* dates (midnight UTC, as the form creates them) before, at the start of,
\* at the end of and after the window of a page opened on day 2, in two of
\* the categories.  A page is opened on day 2 or day 9, at any time of day.
ShownDays == {1, 2, 9, 10}
ShownSubs ==
  {[id |-> ClientId(1), name |-> "Netflix",
    cost |-> IF cycle = "Monthly" THEN 1000 ELSE 12500,
    renewalDate |-> DateFromColumn(day), cycle |-> cycle, status |-> status,
    category |-> IF day \in {1, 9} THEN "Design" ELSE "Storage"] :
     status \in {"Active", "Trial"}, cycle \in {"Monthly", "Annually"},
     day \in ShownDays}
ShownLists == UNION {[1..n -> ShownSubs] : n \in 0..MaxShown}
Nows == {day * UnitsPerDay + u : day \in {2, 9}, u \in 0..(UnitsPerDay - 1)}

NoView ==
  [op |-> "none", subscriptions |-> <<>>, now |-> 0, tz |-> 0,
   total |-> 0, byCategory |-> [c \in Categories |-> 0], upcoming |-> <<>>,
   renewal |-> 0]

\* ------------------------------------------------------ Notification settings
Settings ==
  {[emailEnabled |-> FALSE, timeframe |-> "3 days"],
   [emailEnabled |-> TRUE, timeframe |-> "1 week"],
   [emailEnabled |-> TRUE, timeframe |-> "1 day"]}
\* Calls of saveNotificationSettingsToDB that may be in flight together
\* (two tabs of the same browser).
CallIds == {"tab1", "tab2"}
\* A call before it starts and after it returned.
IdleCall ==
  [pc |-> "idle", userId |-> NoId, existing |-> FALSE,
   settings |-> [emailEnabled |-> FALSE, timeframe |-> "3 days"]]

HasSettings(rows, userId) == \E i \in DOMAIN rows : rows[i].user_id = userId

\* .select('id').eq('user_id', userId).single(): `existing` is the row when
\* the query returns one; no row and an error both leave it null.
selectSettings(rows, userId, ok) == ok /\ HasSettings(rows, userId)

\* The second statement with no UNIQUE constraint on user_id.
writeSettings_NoUniqueConstraint(rows, settings, userId, existing, ok) ==
  IF existing
    THEN IF ok
      THEN [rows |-> [i \in DOMAIN rows |->
                        IF rows[i].user_id = userId
                          THEN [rows[i] EXCEPT !.email_enabled = settings.emailEnabled,
                                               !.timeframe = settings.timeframe]
                          ELSE rows[i]],
            ok |-> TRUE, call |-> Call("update", TRUE)]
      ELSE [rows |-> rows, ok |-> FALSE, call |-> Call("update", FALSE)]
    ELSE IF ~ok
      THEN [rows |-> rows, ok |-> FALSE, call |-> Call("insert", FALSE)]
      ELSE [rows |-> Append(rows, [user_id |-> userId,
                                   email_enabled |-> settings.emailEnabled,
                                   timeframe |-> settings.timeframe]),
            ok |-> TRUE, call |-> Call("insert", TRUE)]

\* The second statement of saveNotificationSettingsToDB: an update of the
\* user's row when the select found one, else an insert.  `ok` is whether the
\* request went through; user_id is UNIQUE, so an insert for a user who has a
\* row is rejected by the database.  The function returns false on any error.
writeSettings(rows, settings, userId, existing, ok) ==
  IF existing
    THEN IF ok
      THEN [rows |-> [i \in DOMAIN rows |->
                        IF rows[i].user_id = userId
                          THEN [rows[i] EXCEPT !.email_enabled = settings.emailEnabled,
                                               !.timeframe = settings.timeframe]
                          ELSE rows[i]],
            ok |-> TRUE, call |-> Call("update", TRUE)]
      ELSE [rows |-> rows, ok |-> FALSE, call |-> Call("update", FALSE)]
    ELSE IF ~ok
      THEN [rows |-> rows, ok |-> FALSE, call |-> Call("insert", FALSE)]
    ELSE IF HasSettings(rows, userId)
      THEN [rows |-> rows, ok |-> FALSE, call |-> Call("insert: duplicate key", FALSE)]
      ELSE [rows |-> Append(rows, [user_id |-> userId,
                                   email_enabled |-> settings.emailEnabled,
                                   timeframe |-> settings.timeframe]),
            ok |-> TRUE, call |-> Call("insert", TRUE)]

\* The settings a page shows before anything was saved.
DefaultSettings == [emailEnabled |-> FALSE, timeframe |-> "3 days"]
StoredSettings(settings) ==
  [kind |-> "json", emailEnabled |-> settings.emailEnabled,
   timeframe |-> settings.timeframe]
CorruptLocalSettings == [kind |-> "corrupt", emailEnabled |-> FALSE, timeframe |-> ""]
NoSettings == [emailEnabled |-> FALSE, timeframe |-> ""]

\* loadNotificationSettingsFromDB: the user's row, or null (NoSettings) when
\* the query fails or finds none.
loadNotificationSettingsFromDB(rows, userId, ok) ==
  IF ok /\ HasSettings(rows, userId)
    THEN LET i == CHOOSE i \in DOMAIN rows : rows[i].user_id = userId IN
         [emailEnabled |-> rows[i].email_enabled, timeframe |-> rows[i].timeframe]
    ELSE NoSettings

\* loadNotificationSettings: the database when a userId is given and it has
\* a row; else the entry `notification_settings` of localStorage, else the
\* defaults.
loadNotificationSettings(rows, local, userId, ok) ==
  LET dbSettings == IF userId # NoId
                      THEN loadNotificationSettingsFromDB(rows, userId, ok)
                      ELSE NoSettings
  IN
  IF dbSettings # NoSettings THEN dbSettings
  ELSE IF local.kind = "json"
    THEN [emailEnabled |-> local.emailEnabled, timeframe |-> local.timeframe]
    ELSE DefaultSettings

\* saveNotificationSettings: the database when a userId is given; the entry
\* `notification_settings` of localStorage when it is not or the database
\* save reports failure.  f[1]: the select, f[2]: the update or insert.
saveNotificationSettings(rows, local, settings, userId, f) ==
  IF userId # NoId
    THEN LET existing == selectSettings(rows, userId, f[1])
             w == writeSettings(rows, settings, userId, existing, f[2])
         IN IF w.ok
              THEN [rows |-> w.rows, local |-> local,
                    calls |-> <<Call("select", existing), w.call>>, wrote |-> {}]
              ELSE [rows |-> w.rows, local |-> StoredSettings(settings),
                    calls |-> <<Call("select", existing), w.call>>,
                    wrote |-> {"notification_settings"}]
    ELSE [rows |-> rows, local |-> StoredSettings(settings), calls |-> <<>>,
          wrote |-> {"notification_settings"}]

\* ------------------------------------------------------------------ actions
FailurePlans(n) == [1..n -> BOOLEAN]

\* Subscriptions a caller may hold: created in a form (client id) or read
\* from the database earlier (a UUID the database handed out).
KnownSubs == Pool \cup {[p EXCEPT !.id = Uuid(n)] : p \in Pool, n \in 1..(nextUuid - 1)}

CommitStore(st) ==
  /\ st.nextUuid <= MaxUuid + 1
  /\ cache' = st.cache
  /\ marker' = st.marker
  /\ remote' = st.remote
  /\ nextUuid' = st.nextUuid
  /\ UNCHANGED inFlight

\* The subscription handlers leave the identity state alone.
Commit(st) ==
  /\ CommitStore(st)
  /\ UNCHANGED <<identityVars, view, settingsVars>>

Returned(op, userKey, userId, subs, list, ok, calls, wrote) ==
  /\ last' = IF logDetail
               THEN [op |-> op, userKey |-> userKey, userId |-> userId, subs |-> subs,
                     list |-> list, ok |-> ok, calls |-> calls, wrote |-> wrote]
               ELSE [op |-> op, userKey |-> "", userId |-> NoId, subs |-> <<>>,
                     list |-> <<>>, ok |-> TRUE, calls |-> <<>>, wrote |-> {}]
  /\ UNCHANGED logDetail

\* localStorage outlives the page: it may hold what an earlier version of
\* the page stored, or a value that does not parse.
Init ==
  /\ cache \in {[k \in UserKeys |-> IF k = "alice" THEN e ELSE NoEntry] :
                  e \in {NoEntry, CorruptEntry, JsonEntry(<<LegacyItem>>)}}
  /\ marker = {}
  /\ remote = {}
  /\ nextUuid = 1
  /\ currentUser = NoCurrentUser
  /\ oldData = NoEntry
  /\ session = NoSession
  /\ locationHash = "none"
  /\ view = NoView
  /\ settingsRows = <<>>
  /\ inFlight = [c \in Contexts |-> IdleFlight]
  /\ users = NoUsers
  /\ localSettings = NoLocalSettings
  /\ settingsCalls = [c \in CallIds |-> IdleCall]
  /\ last = [op |-> "init", userKey |-> "", userId |-> NoId, subs |-> <<>>,
             list |-> <<>>, ok |-> TRUE, calls |-> <<>>, wrote |-> {}]
  /\ logDetail = TRUE

ListFromDB ==
  \E userId \in UserIds, ok \in BOOLEAN :
    \E list \in loadSubscriptionsFromDB(St, userId, ok) :
      /\ Commit(St)
      /\ Returned("loadSubscriptionsFromDB", "", userId, <<>>, list, TRUE,
                  <<Call("select", ok)>>, {})

ReplaceAllInDB ==
  \E subscriptions \in SubLists, userId \in UserIds, f \in FailurePlans(2) :
    LET r == saveSubscriptionsToDB(St, subscriptions, userId, f) IN
      /\ Commit(r.st)
      /\ Returned("saveSubscriptionsToDB", "", userId, subscriptions, <<>>, r.ok,
                  r.calls, {})

UpsertOneInDB ==
  \E subscription \in KnownSubs, userId \in UserIds, f \in FailurePlans(2) :
    LET r == saveSubscriptionToDB(St, subscription, userId, f) IN
      /\ Commit(r.st)
      /\ Returned("saveSubscriptionToDB", "", userId, <<>>, <<>>, r.ok,
                  r.calls, {})

DeleteOneInDB ==
  \E subscription \in KnownSubs, userId \in UserIds, f \in FailurePlans(1) :
    LET r == deleteSubscriptionFromDB(St, subscription.id, userId, f) IN
      /\ Commit(r.st)
      /\ Returned("deleteSubscriptionFromDB", "", userId, <<>>, <<>>, r.ok,
                  r.calls, {})

Migrate ==
  \E userId \in SessionIds, username \in UserKeys, f \in FailurePlans(2) :
    LET m == migrateSubscriptionsToDB(St, userId, username, f) IN
      /\ Commit(m.st)
      /\ Returned("migrateSubscriptionsToDB", username, userId, <<>>, <<>>, TRUE,
                  m.calls, m.wrote)

Load ==
  \E userKey \in UserKeys, userId \in SessionIds \cup {NoId}, f \in FailurePlans(4) :
    \E out \in loadSubscriptions(St, userKey, userId, f) :
      /\ Commit(out.st)
      /\ Returned("loadSubscriptions", userKey, userId, <<>>, out.list, TRUE,
                  out.calls, out.wrote)

Save ==
  \E subscriptions \in SubLists, userKey \in UserKeys, userId \in SessionIds \cup {NoId},
     f \in FailurePlans(2) :
    LET s == saveSubscriptions(St, subscriptions, userKey, userId, f) IN
      /\ Commit(s.st)
      /\ Returned("saveSubscriptions", userKey, userId, subscriptions, <<>>, TRUE,
                  s.calls, s.wrote)

\* The facade as the views drive it.
Next ==
  \/ Migrate
  \/ Load
  \/ Save

Spec == Init /\ [][Next]_vars

\* The adapter's four operations called directly, for two owners.
NextAdapter ==
  \/ ListFromDB
  \/ ReplaceAllInDB
  \/ UpsertOneInDB
  \/ DeleteOneInDB

SpecAdapter == Init /\ [][NextAdapter]_vars

\* The browser as the identity layer finds it: `currentUser` may hold a
\* value that does not parse, `subscriptions` the list of the older version.
InitIdentity ==
  /\ cache = [k \in UserKeys |-> NoEntry]
  /\ marker = {}
  /\ remote = {}
  /\ nextUuid = 1
  /\ currentUser \in {NoCurrentUser, CorruptCurrentUser}
  /\ oldData \in {NoEntry, JsonEntry(<<LegacyItem>>)}
  /\ session = NoSession
  /\ locationHash = "none"
  /\ view = NoView
  /\ settingsRows = <<>>
  /\ inFlight = [c \in Contexts |-> IdleFlight]
  /\ users = NoUsers
  /\ localSettings = NoLocalSettings
  /\ settingsCalls = [c \in CallIds |-> IdleCall]
  /\ last = [op |-> "init", userKey |-> "", userId |-> NoId, subs |-> <<>>,
             list |-> <<>>, ok |-> TRUE, calls |-> <<>>, wrote |-> {}]
  /\ logDetail = TRUE

\* The migration inside getCurrentUserAsync makes its calls for a Supabase
\* user only: without one there is nothing that can fail.
MigrationPlans(user) == IF user = Null THEN {<<TRUE, TRUE>>} ELSE FailurePlans(2)

\* getCurrentUserAsync as a page calls it.  The outcome is recorded as the
\* identity returned (userKey, userId), whether it returned (ok) and the calls.
Resolve ==
  \E p \in ResolvePlans :
    \E f \in MigrationPlans(getSupabaseUser(session, locationHash, p).user) :
      LET r == getCurrentUserAsync(St, session, currentUser, locationHash, p, f) IN
        \* setSession is called with tokens in the hash only
        /\ locationHash # "tokens" => p.setSession = "ok"
        /\ CommitStore(r.st)
        /\ session' = r.session
        /\ locationHash' = r.hash
        /\ UNCHANGED <<currentUser, oldData, users, view, settingsVars>>
        /\ Returned("getCurrentUserAsync", r.user.username, r.user.id, <<>>, <<>>,
                    ~r.raised, r.calls, r.wrote)

Login ==
  \E username \in LocalUsers, found \in BOOLEAN :
    LET r == loginUser(St, currentUser, oldData, username, found) IN
      /\ CommitStore(r.st)
      /\ currentUser' = r.currentUser
      /\ oldData' = r.oldData
      /\ UNCHANGED <<session, locationHash, users, view, settingsVars>>
      /\ Returned("loginUser", username, NoId, <<>>, <<>>, r.success, <<>>, {})

\* logoutUser emptying localStorage instead of removing `currentUser`.
Logout_ClearsStorage ==
  \E p \in SignOutPlans :
    LET r == logoutUser(session, p) IN
      /\ cache' = [k \in UserKeys |-> NoEntry]
      /\ marker' = {}
      /\ UNCHANGED <<remote, nextUuid, inFlight>>
      /\ session' = r.session
      /\ currentUser' = r.currentUser
      /\ oldData' = NoEntry
      /\ UNCHANGED <<locationHash, users, view, settingsVars>>
      /\ Returned("logoutUser", "", NoId, <<>>, <<>>, TRUE, r.calls, {})

Logout ==
  \E p \in SignOutPlans :
    LET r == logoutUser(session, p) IN
      /\ CommitStore(St)
      /\ session' = r.session
      /\ currentUser' = r.currentUser
      /\ UNCHANGED <<oldData, locationHash, users, view, settingsVars>>
      /\ Returned("logoutUser", "", NoId, <<>>, <<>>, TRUE, r.calls, {})

SignIn ==
  \E p \in SignInPlans, arrival \in {"tokens", "error"} :
    LET r == signInWithGoogle(locationHash, p, arrival) IN
      /\ CommitStore(St)
      /\ locationHash' = r.hash
      /\ UNCHANGED <<currentUser, oldData, session, users, view, settingsVars>>
      /\ Returned("signInWithGoogle", "", NoId, <<>>, <<>>, r.success, r.calls, {})

\* A page holding a list of subscriptions, opened at `now` in a browser
\* whose clock is `tz` behind UTC, before it has computed anything.
InitAnalytics ==
  /\ cache = [k \in UserKeys |-> NoEntry]
  /\ marker = {}
  /\ remote = {}
  /\ nextUuid = 1
  /\ currentUser = NoCurrentUser
  /\ oldData = NoEntry
  /\ session = NoSession
  /\ locationHash = "none"
  /\ view \in {[NoView EXCEPT !.subscriptions = subscriptions, !.now = now, !.tz = tz] :
                 subscriptions \in ShownLists, now \in Nows, tz \in TimezoneOffsets}
  /\ settingsRows = <<>>
  /\ inFlight = [c \in Contexts |-> IdleFlight]
  /\ users = NoUsers
  /\ localSettings = NoLocalSettings
  /\ settingsCalls = [c \in CallIds |-> IdleCall]
  /\ last = [op |-> "init", userKey |-> "", userId |-> NoId, subs |-> <<>>,
             list |-> <<>>, ok |-> TRUE, calls |-> <<>>, wrote |-> {}]
  /\ logDetail = TRUE

\* The dashboard renders: total, categories and upcoming renewals of its list.
RenderDashboard ==
  /\ view' = [view EXCEPT
       !.op = "dashboard",
       !.total = calculateTotalMonthlyCost(view.subscriptions),
       !.byCategory = getSpendingByCategory(view.subscriptions),
       !.upcoming = findUpcomingRenewals(view.subscriptions, view.now, view.tz),
       !.renewal = 0]
  /\ UNCHANGED <<subscriptionVars, identityVars, settingsVars, last, logDetail>>

\* The calendar renders the renewal amount of the month of the date viewed,
\* at first the date the page was opened.
RenderCalendar ==
  /\ view' = [view EXCEPT
       !.op = "calendar",
       !.total = 0,
       !.byCategory = [c \in Categories |-> 0],
       !.upcoming = <<>>,
       !.renewal = calculateMonthlyRenewal(view.subscriptions, view.now, view.tz)]
  /\ UNCHANGED <<subscriptionVars, identityVars, settingsVars, last, logDetail>>

NextAnalytics ==
  \/ RenderDashboard
  \/ RenderCalendar

SpecAnalytics == InitAnalytics /\ [][NextAnalytics]_vars

\* saveNotificationSettingsToDB up to the answer of its select.  When the
\* client cannot be loaded or the select throws, the call returns false here.
BeginSaveSettings ==
  \E c \in CallIds, settings \in Settings, userId \in UserIds,
     import \in BOOLEAN, select \in Outcomes :
    /\ settingsCalls[c].pc = "idle"
    /\ IF import /\ select # "throw"
         THEN /\ settingsCalls' = [settingsCalls EXCEPT ![c] =
                   [pc |-> "selected", userId |-> userId, settings |-> settings,
                    existing |-> selectSettings(settingsRows, userId, select = "ok")]]
              /\ UNCHANGED <<last, logDetail>>
         ELSE /\ UNCHANGED settingsCalls
              /\ Returned("saveNotificationSettingsToDB", c, userId, <<>>, <<>>, FALSE,
                          IF import THEN <<Call("select", FALSE)>>
                                    ELSE <<Call("import", FALSE)>>, {})
    /\ UNCHANGED <<subscriptionVars, identityVars, view, settingsRows, localSettings>>

\* saveNotificationSettingsToDB from the answer of its select to its return.
EndSaveSettings ==
  \E c \in CallIds, ok \in BOOLEAN :
    LET call == settingsCalls[c]
        w == writeSettings(settingsRows, call.settings, call.userId, call.existing, ok)
    IN /\ call.pc = "selected"
       /\ settingsRows' = w.rows
       /\ settingsCalls' = [settingsCalls EXCEPT ![c] = IdleCall]
       /\ Returned("saveNotificationSettingsToDB", c, call.userId, <<>>, <<>>, w.ok,
                   <<Call("select", call.existing), w.call>>, {})
       /\ UNCHANGED <<subscriptionVars, identityVars, view, localSettings>>

\* Notification settings saved from two tabs, for two owners.
NextSettings ==
  \/ BeginSaveSettings
  \/ EndSaveSettings

SpecSettings == Init /\ [][NextSettings]_vars

\* The registration form, submitted with whatever was typed.
RegisterUser ==
  \E username \in Usernames, password \in Passwords :
    LET r == registerUser(users, username, password) IN
      /\ users' = r.users
      /\ UNCHANGED <<subscriptionVars, currentUser, oldData, session, locationHash,
                     view, settingsVars>>
      /\ Returned("registerUser", username, NoId, <<>>, <<r.error>>, r.success, <<>>,
                  IF r.success THEN {"users"} ELSE {})

NextRegistry ==
  \/ RegisterUser

\* A browser whose `users` entry is absent or does not parse.
InitRegistry ==
  /\ cache = [k \in UserKeys |-> NoEntry]
  /\ marker = {}
  /\ remote = {}
  /\ nextUuid = 1
  /\ currentUser = NoCurrentUser
  /\ oldData = NoEntry
  /\ session = NoSession
  /\ locationHash = "none"
  /\ view = NoView
  /\ settingsRows = <<>>
  /\ settingsCalls = [c \in CallIds |-> IdleCall]
  /\ inFlight = [c \in Contexts |-> IdleFlight]
  /\ users \in {NoUsers, CorruptUsers}
  /\ localSettings = NoLocalSettings
  /\ last = [op |-> "init", userKey |-> "", userId |-> NoId, subs |-> <<>>,
             list |-> <<>>, ok |-> TRUE, calls |-> <<>>, wrote |-> {}]
  /\ logDetail = TRUE

SpecRegistry == InitRegistry /\ [][NextRegistry]_vars

\* The owners who save settings in this browser: the signed-in identity u1
\* and a local user, who has no id.  Owner u2 only ever loads.
SaveSettings ==
  \E settings \in Settings, userId \in SessionIds \cup {NoId}, f \in FailurePlans(2) :
    LET s == saveNotificationSettings(settingsRows, localSettings, settings, userId, f) IN
      /\ settingsRows' = s.rows
      /\ localSettings' = s.local
      /\ UNCHANGED <<subscriptionVars, identityVars, view, settingsCalls>>
      /\ Returned("saveNotificationSettings", "", userId, <<>>, <<settings>>, TRUE,
                  s.calls, s.wrote)

LoadSettings ==
  \E userId \in UserIds \cup {NoId}, ok \in BOOLEAN :
    LET settings == loadNotificationSettings(settingsRows, localSettings, userId, ok) IN
      /\ UNCHANGED <<subscriptionVars, identityVars, view, settingsVars>>
      /\ Returned("loadNotificationSettings", "", userId, <<>>, <<settings>>, TRUE,
                  IF userId # NoId THEN <<Call("select", ok)>> ELSE <<>>, {})

NextPreferences ==
  \/ SaveSettings
  \/ LoadSettings

\* A browser whose `notification_settings` entry is absent or does not parse.
InitPreferences ==
  /\ cache = [k \in UserKeys |-> NoEntry]
  /\ marker = {}
  /\ remote = {}
  /\ nextUuid = 1
  /\ currentUser = NoCurrentUser
  /\ oldData = NoEntry
  /\ session = NoSession
  /\ locationHash = "none"
  /\ view = NoView
  /\ settingsRows = <<>>
  /\ settingsCalls = [c \in CallIds |-> IdleCall]
  /\ inFlight = [c \in Contexts |-> IdleFlight]
  /\ users = NoUsers
  /\ localSettings \in {NoLocalSettings, CorruptLocalSettings}
  /\ last = [op |-> "init", userKey |-> "", userId |-> NoId, subs |-> <<>>,
             list |-> <<>>, ok |-> TRUE, calls |-> <<>>, wrote |-> {}]
  /\ logDetail = TRUE

SpecPreferences == InitPreferences /\ [][NextPreferences]_vars

\* The identity layer alone: sign in with Google or locally, sign out, resolve.
NextIdentity ==
  \/ Resolve
  \/ Login
  \/ Logout
  \/ SignIn

SpecIdentity == InitIdentity /\ [][NextIdentity]_vars

\* A session of the application: the identity layer and the facade together.
NextSession ==
  \/ Resolve
  \/ Login
  \/ Logout
  \/ SignIn
  \/ Migrate
  \/ Load
  \/ Save

\* ------------------------------------------- actions: interleaved facade calls
\* Every await of a facade call is a point where the other execution context
\* may run.  A step is one request served by the database together with the
\* synchronous code that runs on its answer.
Step(c, flight, st) ==
  /\ st.nextUuid <= MaxUuid + 1
  /\ inFlight' = [inFlight EXCEPT ![c] = flight]
  /\ cache' = st.cache
  /\ marker' = st.marker
  /\ remote' = st.remote
  /\ nextUuid' = st.nextUuid
  /\ UNCHANGED <<identityVars, view, settingsVars, last, logDetail>>

Done(flight, ok, list) == [flight EXCEPT !.pc = "done", !.ok = ok, !.list = list]

\* The lists the two contexts save: each holds one subscription the other
\* does not.
SaveLists == {<<Sub1>>, <<Sub2>>}

\* saveSubscriptions(subscriptions, userKey, userId) up to the first await of
\* saveSubscriptionsToDB.
CallSave(c) ==
  \E subscriptions \in SaveLists, userKey \in UserKeys, userId \in SessionIds :
    /\ inFlight[c].pc = "idle"
    /\ Step(c, [IdleFlight EXCEPT !.pc = "delete", !.op = "saveSubscriptions",
                  !.userKey = userKey, !.userId = userId, !.subs = subscriptions], St)

\* migrateSubscriptionsToDB(userId, username) up to the first await: the test
\* of the flag and the read of the cache.
CallMigrate(c) ==
  \E userId \in SessionIds, username \in UserKeys :
    LET flight == [IdleFlight EXCEPT !.op = "migrateSubscriptionsToDB",
                     !.userKey = username, !.userId = userId]
        localSubs == loadSubscriptionsLocal(St, username)
    IN
    /\ inFlight[c].pc = "idle"
    /\ IF userId \in marker THEN Step(c, Done(flight, TRUE, NoSubs), St)
       ELSE IF Len(localSubs) > 0
         THEN Step(c, [flight EXCEPT !.pc = "delete", !.subs = localSubs], St)
         ELSE Step(c, Done(flight, TRUE, NoSubs),
                   [St EXCEPT !.marker = @ \cup {userId}])

\* loadSubscriptions(userKey, userId) up to the await of its first select.
CallLoad(c) ==
  \E userKey \in UserKeys, userId \in SessionIds :
    /\ inFlight[c].pc = "idle"
    /\ Step(c, [IdleFlight EXCEPT !.pc = "select", !.op = "loadSubscriptions",
                  !.userKey = userKey, !.userId = userId], St)

\* The database serves the first select of a load.
SelectStep(c) ==
  \E ok \in BOOLEAN :
    \E dbSubs \in loadSubscriptionsFromDB(St, inFlight[c].userId, ok) :
      /\ inFlight[c].pc = "select"
      /\ Step(c, [inFlight[c] EXCEPT !.pc = "decide", !.list = dbSubs], St)

\* loadSubscriptions that does not look at the flag before it migrates.
Decide_IgnoresMarker(c) ==
  LET flight == inFlight[c]
      localSubs == loadSubscriptionsLocal(St, flight.userKey)
  IN
  /\ flight.pc = "decide"
  /\ IF Len(flight.list) > 0
       THEN Step(c, Done(flight, TRUE, flight.list), St)
       ELSE IF Len(localSubs) > 0
         THEN Step(c, [flight EXCEPT !.pc = "delete", !.subs = localSubs], St)
         ELSE Step(c, Done(flight, TRUE, flight.list), St)

\* loadSubscriptions on the answer of its first select: return it when it has
\* rows or the flag is set; else, with a cached list, enter
\* migrateSubscriptionsToDB, which tests the flag and reads the cache in the
\* same turn.
Decide(c) ==
  LET flight == inFlight[c]
      localSubs == loadSubscriptionsLocal(St, flight.userKey)
  IN
  /\ flight.pc = "decide"
  /\ IF Len(flight.list) > 0 \/ flight.userId \in marker
       THEN Step(c, Done(flight, TRUE, flight.list), St)
       ELSE IF Len(localSubs) > 0
         THEN Step(c, [flight EXCEPT !.pc = "delete", !.subs = localSubs], St)
         ELSE Step(c, Done(flight, TRUE, flight.list), St)

\* What the caller of saveSubscriptionsToDB does when it reports failure:
\* saveSubscriptions writes the cache, migrateSubscriptionsToDB leaves the
\* flag unset, loadSubscriptions goes on to its second select.
AfterFailure(c, st) ==
  LET flight == inFlight[c] IN
  IF flight.op = "saveSubscriptions"
    THEN Step(c, Done(flight, FALSE, NoSubs),
              saveSubscriptionsLocal(st, flight.subs, flight.userKey))
  ELSE IF flight.op = "migrateSubscriptionsToDB"
    THEN Step(c, Done(flight, FALSE, NoSubs), st)
  ELSE Step(c, [flight EXCEPT !.pc = "reselect", !.ok = FALSE], st)

\* What the caller of saveSubscriptionsToDB does when it reports success.
AfterSuccess(c, st) ==
  LET flight == inFlight[c]
      marked == [st EXCEPT !.marker = @ \cup {flight.userId}]
  IN
  IF flight.op = "saveSubscriptions"
    THEN Step(c, Done(flight, TRUE, NoSubs), st)
  ELSE IF flight.op = "migrateSubscriptionsToDB"
    THEN Step(c, Done(flight, TRUE, NoSubs), marked)
  ELSE Step(c, [flight EXCEPT !.pc = "reselect", !.ok = TRUE], marked)

\* The delete of saveSubscriptionsToDB that removes no row.
DeleteStep_KeepsRows(c) ==
  \E ok \in BOOLEAN :
    LET flight == inFlight[c] IN
    /\ flight.pc = "delete"
    /\ IF ~ok THEN AfterFailure(c, St)
       ELSE IF Len(flight.subs) > 0
         THEN Step(c, [flight EXCEPT !.pc = "insert"], St)
         ELSE AfterSuccess(c, St)

\* The database serves the delete of saveSubscriptionsToDB: every row of the
\* user goes.
DeleteStep(c) ==
  \E ok \in BOOLEAN :
    LET flight == inFlight[c]
        deleted == [St EXCEPT !.remote = @ \ RowsOf(@, flight.userId)]
    IN
    /\ flight.pc = "delete"
    /\ IF ~ok THEN AfterFailure(c, St)
       ELSE IF Len(flight.subs) > 0
         THEN Step(c, [flight EXCEPT !.pc = "insert"], deleted)
         ELSE AfterSuccess(c, deleted)

\* The database serves the insert of saveSubscriptionsToDB.
InsertStep(c) ==
  \E ok \in BOOLEAN :
    LET flight == inFlight[c]
        inserted == [St EXCEPT
                       !.remote = @ \cup InsertedRows(flight.subs, flight.userId, nextUuid),
                       !.nextUuid = @ + Len(flight.subs)]
    IN
    /\ flight.pc = "insert"
    /\ IF ok THEN AfterSuccess(c, inserted) ELSE AfterFailure(c, St)

\* The database serves the second select of a load that migrated.
Reselect(c) ==
  \E ok \in BOOLEAN :
    \E again \in loadSubscriptionsFromDB(St, inFlight[c].userId, ok) :
      /\ inFlight[c].pc = "reselect"
      /\ Step(c, Done(inFlight[c], inFlight[c].ok, again), St)

\* The call has returned and its caller is free for the next.
Return(c) ==
  /\ inFlight[c].pc = "done"
  /\ Step(c, IdleFlight, St)

NextConcurrent ==
  \/ \E c \in Contexts : CallSave(c)
  \/ \E c \in Contexts : CallMigrate(c)
  \/ \E c \in Contexts : CallLoad(c)
  \/ \E c \in Contexts : SelectStep(c)
  \/ \E c \in Contexts : Decide(c)
  \/ \E c \in Contexts : DeleteStep(c)
  \/ \E c \in Contexts : InsertStep(c)
  \/ \E c \in Contexts : Reselect(c)
  \/ \E c \in Contexts : Return(c)

\* The identity u1 is signed in in a browser that holds the list of the
\* older version under the username; the database holds nothing yet.
InitConcurrent ==
  /\ cache = [k \in UserKeys |-> IF k = "alice" THEN JsonEntry(<<LegacyItem>>) ELSE NoEntry]
  /\ marker = {}
  /\ remote = {}
  /\ nextUuid = 1
  /\ currentUser = NoCurrentUser
  /\ oldData = NoEntry
  /\ session = "u1"
  /\ locationHash = "none"
  /\ view = NoView
  /\ settingsRows = <<>>
  /\ settingsCalls = [c \in CallIds |-> IdleCall]
  /\ inFlight = [c \in Contexts |-> IdleFlight]
  /\ users = NoUsers
  /\ localSettings = NoLocalSettings
  /\ last = [op |-> "init", userKey |-> "", userId |-> NoId, subs |-> <<>>,
             list |-> <<>>, ok |-> TRUE, calls |-> <<>>, wrote |-> {}]
  /\ logDetail = FALSE

SpecConcurrent == InitConcurrent /\ [][NextConcurrent]_vars

\* A browser holding the list of the older version, nobody signed in; of
\* each call only the name is kept.
InitSession ==
  /\ cache = [k \in UserKeys |-> NoEntry]
  /\ marker = {}
  /\ remote = {}
  /\ nextUuid = 1
  /\ currentUser = NoCurrentUser
  /\ oldData = JsonEntry(<<LegacyItem>>)
  /\ session = NoSession
  /\ locationHash = "none"
  /\ view = NoView
  /\ settingsRows = <<>>
  /\ inFlight = [c \in Contexts |-> IdleFlight]
  /\ users = NoUsers
  /\ localSettings = NoLocalSettings
  /\ settingsCalls = [c \in CallIds |-> IdleCall]
  /\ last = [op |-> "init", userKey |-> "", userId |-> NoId, subs |-> <<>>,
             list |-> <<>>, ok |-> TRUE, calls |-> <<>>, wrote |-> {}]
  /\ logDetail = FALSE

SpecSession == InitSession /\ [][NextSession]_vars

TypeOK ==
  /\ marker \subseteq UserIds
  /\ nextUuid \in 1..(MaxUuid + 1)
  /\ \A r \in remote : r.user_id \in UserIds /\ ValidUuid(r.id)
  /\ \A k \in UserKeys : cache[k].kind \in {"absent", "corrupt", "json"}
  /\ currentUser.kind \in {"absent", "corrupt", "json"}
  /\ oldData.kind \in {"absent", "json"}
  /\ session \in {NoSession} \cup SessionIds
  /\ locationHash \in Hashes
  /\ view.op \in {"none", "dashboard", "calendar"}
  /\ \A i \in DOMAIN settingsRows : settingsRows[i].user_id \in UserIds
  /\ \A c \in CallIds : settingsCalls[c].pc \in {"idle", "selected"}
  /\ logDetail \in BOOLEAN
  /\ \A c \in Contexts :
       inFlight[c].pc \in {"idle", "select", "decide", "delete", "insert", "reselect", "done"}
  /\ users.kind \in {"absent", "corrupt", "json"}
  /\ localSettings.kind \in {"absent", "corrupt", "json"}

\* ------------------------------------------------------------------- claims
AllOk(calls) == \A i \in DOMAIN calls : calls[i].ok
SomeFailed(calls) == \E i \in DOMAIN calls : ~calls[i].ok
SelectOk == Call("select", TRUE)
DeleteOk == Call("delete", TRUE)
InsertOk == Call("insert", TRUE)
InsertFailed == Call("insert", FALSE)
AllSucceed(n) == [i \in 1..n |-> TRUE]

SameFields(a, b) ==
  /\ a.name = b.name /\ a.cost = b.cost /\ a.cycle = b.cycle
  /\ a.status = b.status /\ a.category = b.category
  /\ a.renewalDate = b.renewalDate

\* `list` shows every row of `rows` once, field by field, dates ascending.
IsListingOf(list, rows) ==
  /\ Len(list) = Cardinality(rows)
  /\ \A r \in rows : \E i \in DOMAIN list :
       /\ list[i].id = r.id /\ list[i].name = r.name /\ list[i].cost = r.cost
       /\ list[i].cycle = r.cycle /\ list[i].status = r.status
       /\ list[i].category = r.category
       /\ list[i].renewalDate = r.renewal_date * UnitsPerDay
  /\ \A i, j \in DOMAIN list : i < j => list[i].renewalDate <= list[j].renewalDate

\* C1 (as claimed): whatever the state and whatever remote calls fail, a
\* migrateSubscriptionsToDB(userId, username) that directly follows another
\* one with the same arguments issues no remote delete or insert, writes no
\* marker and leaves the remote store as the first call left it.
C1_SecondMigrationNeverWrites ==
  [][(/\ last.op = "migrateSubscriptionsToDB"
      /\ last'.op = "migrateSubscriptionsToDB"
      /\ last'.userId = last.userId
      /\ last'.userKey = last.userKey)
     => (last'.calls = <<>> /\ last'.wrote = {} /\ remote' = remote)]_vars

\* C1 (amended): when no remote call of the first migration fails, the second
\* migration issues no remote call, writes nothing and leaves every store as
\* the first left it; when the first migration's replaceAll failed, the
\* second migration issues the remote delete again (the retry).
C1_SecondMigrationWritesOnlyAfterFailure ==
  \A userId \in SessionIds, username \in UserKeys, f1, f2 \in FailurePlans(2) :
    LET first == migrateSubscriptionsToDB(St, userId, username, f1)
        second == migrateSubscriptionsToDB(first.st, userId, username, f2)
    IN IF AllOk(first.calls)
         THEN second.calls = <<>> /\ second.wrote = {} /\ second.st = first.st
         ELSE /\ Len(second.calls) > 0
              /\ second.calls[1].op = "delete"

\* A migration that found the marker set by an earlier copy and did nothing.
C1_Witness ==
  /\ last.op = "migrateSubscriptionsToDB"
  /\ last.calls = <<>> /\ last.wrote = {}
  /\ last.userId \in marker
  /\ RowsOf(remote, last.userId) # {}
  /\ Len(loadSubscriptionsLocal(St, last.userKey)) > 0

\* C2 (as claimed): a load with a userId whose first remote query fails
\* returns the list stored in the local cache under userKey.
C2_LoadFallsBackToCache ==
  [][(/\ last'.op = "loadSubscriptions"
      /\ last'.userId # NoId
      /\ last'.calls[1] = Call("select", FALSE))
     => last'.list = loadSubscriptionsLocal(St, last'.userKey)]_vars

\* C3: a saveSubscriptionsToDB whose delete succeeds and whose insert fails
\* reports failure, leaves the owner without any row and every other
\* owner's rows as they were.
C3_InsertFailureLeavesOwnerEmpty ==
  \A subscriptions \in SubLists, userId \in UserIds, f \in FailurePlans(2) :
    LET r == saveSubscriptionsToDB(St, subscriptions, userId, f) IN
    r.calls = <<DeleteOk, InsertFailed>> =>
      /\ r.ok = FALSE
      /\ RowsOf(r.st.remote, userId) = {}
      /\ \A other \in UserIds \ {userId} :
           RowsOf(r.st.remote, other) = RowsOf(remote, other)

\* A replaceAll just failed at its insert and another owner still has rows.
C3_Witness ==
  /\ last.op = "saveSubscriptionsToDB"
  /\ last.calls = <<DeleteOk, InsertFailed>>
  /\ RowsOf(remote, last.userId) = {}
  /\ \E other \in UserIds \ {last.userId} : RowsOf(remote, other) # {}

\* C4: a load with a userId whose remote query succeeds, when the owner has
\* rows or the marker is set, returns the owner's rows (the empty list when
\* there are none), makes that one remote call and writes nothing.
C4_AuthoritativeRemoteList ==
  \A userKey \in UserKeys, userId \in SessionIds, f \in FailurePlans(4) :
    (f[1] /\ (RowsOf(remote, userId) # {} \/ userId \in marker)) =>
      \A out \in loadSubscriptions(St, userKey, userId, f) :
        /\ IsListingOf(out.list, RowsOf(remote, userId))
        /\ out.st = St
        /\ out.wrote = {}
        /\ out.calls = <<SelectOk>>

\* A load answered by an empty remote store whose marker is set, while the
\* cache under the key still holds subscriptions.
C4_Witness ==
  /\ last.op = "loadSubscriptions"
  /\ last.calls = <<SelectOk>>
  /\ last.userId \in marker
  /\ RowsOf(remote, last.userId) = {}
  /\ Len(loadSubscriptionsLocal(St, last.userKey)) > 0

\* C5 (as claimed): a load that finds the remote store reachable and empty
\* and the marker unset ends with the marker set (also with an empty cache)
\* and returns the remote content as it is after the call.
C5_LoadAlwaysMigrates ==
  [][(/\ last'.op = "loadSubscriptions"
      /\ last'.userId # NoId
      /\ last'.calls[1] = SelectOk
      /\ RowsOf(remote, last'.userId) = {}
      /\ last'.userId \notin marker)
     => (/\ last'.userId \in marker'
         /\ IsListingOf(last'.list, RowsOf(remote', last'.userId)))]_vars

\* C5 (amended): such a load runs the migration only when the cache under
\* userKey is non-empty: it then issues the migration's delete (and insert)
\* and a second query, ends with the marker set exactly when the replaceAll
\* succeeded, and returns what the second query returned (the owner's rows,
\* or the empty list when that query failed).  With an empty cache it makes
\* no further call, writes nothing, leaves the marker unset and returns [].
C5_LoadMigratesNonEmptyCache ==
  \A userKey \in UserKeys, userId \in SessionIds, f \in FailurePlans(4) :
    (f[1] /\ RowsOf(remote, userId) = {} /\ userId \notin marker) =>
      \A out \in loadSubscriptions(St, userKey, userId, f) :
        IF Len(loadSubscriptionsLocal(St, userKey)) > 0
          THEN /\ Len(out.calls) >= 3
               /\ out.calls[1] = SelectOk
               /\ out.calls[2].op = "delete"
               /\ out.calls[Len(out.calls)] = Call("select", f[4])
               /\ userId \in out.st.marker <=> (f[2] /\ f[3])
               /\ (f[2] /\ f[3]) => Len(out.calls) = 4 /\ out.calls[3] = InsertOk
               /\ IF f[4] THEN IsListingOf(out.list, RowsOf(out.st.remote, userId))
                          ELSE out.list = <<>>
               /\ out.st.cache = cache
          ELSE /\ out.calls = <<SelectOk>>
               /\ out.st = St
               /\ out.wrote = {}
               /\ out.list = <<>>

\* A load that queried, migrated the cache and queried again, all succeeding.
C5_Witness ==
  /\ last.op = "loadSubscriptions"
  /\ last.calls = <<SelectOk, DeleteOk, InsertOk, SelectOk>>
  /\ last.wrote = {"marker"}
  /\ last.userId \in marker
  /\ RowsOf(remote, last.userId) # {}

\* The cache entry under `username` holds exactly `subscriptions`.
CacheHolds(st, username, subscriptions) ==
  LET e == st.cache[username] IN
  /\ e.kind = "json"
  /\ Len(e.items) = Len(subscriptions)
  /\ \A i \in DOMAIN subscriptions :
       /\ e.items[i].id = subscriptions[i].id
       /\ e.items[i].name = subscriptions[i].name
       /\ e.items[i].cost = subscriptions[i].cost
       /\ e.items[i].cycle = subscriptions[i].cycle
       /\ e.items[i].status = subscriptions[i].status
       /\ e.items[i].category = subscriptions[i].category
       /\ e.items[i].renewalDate[1] * UnitsPerDay + e.items[i].renewalDate[2]
            = subscriptions[i].renewalDate

\* C6: save with a userId writes the cache under userKey exactly when the
\* remote replaceAll failed: on success the cache is unchanged, on failure
\* the entry under userKey holds the saved list; without a userId the entry
\* holds the saved list and no remote call is made.
C6_SaveWritesCacheOnlyOnFailure ==
  \A subscriptions \in SubLists, userKey \in UserKeys,
     userId \in SessionIds \cup {NoId}, f \in FailurePlans(2) :
    LET s == saveSubscriptions(St, subscriptions, userKey, userId, f) IN
    /\ userId # NoId =>
         /\ Len(s.calls) > 0
         /\ SomeFailed(s.calls) =>
              (CacheHolds(s.st, userKey, subscriptions) /\ s.wrote = {"cache"})
         /\ AllOk(s.calls) => (s.st.cache = cache /\ s.wrote = {})
    /\ userId = NoId =>
         /\ s.calls = <<>>
         /\ s.st.remote = remote
         /\ CacheHolds(s.st, userKey, subscriptions)
    /\ \A k \in UserKeys \ {userKey} : s.st.cache[k] = cache[k]

\* A save with a userId fell back to the cache after the remote insert failed.
C6_Witness ==
  /\ last.op = "saveSubscriptions"
  /\ last.userId # NoId
  /\ last.calls = <<DeleteOk, InsertFailed>>
  /\ last.wrote = {"cache"}
  /\ Len(cache[last.userKey].items) > 0

\* C7: a migration that starts with the marker unset sets it exactly when
\* the cache under the key is empty or the replaceAll of the cached list
\* succeeded; a replaceAll that fails at the delete or at the insert leaves
\* the marker unset.
C7_MarkerSetIffCopied ==
  \A userId \in SessionIds, username \in UserKeys, f \in FailurePlans(2) :
    userId \notin marker =>
      LET m == migrateSubscriptionsToDB(St, userId, username, f)
          empty == Len(loadSubscriptionsLocal(St, username)) = 0
      IN /\ userId \in m.st.marker <=> (empty \/ (f[1] /\ f[2]))
         /\ empty => m.calls = <<>>
         /\ ~empty => (Len(m.calls) > 0 /\ m.calls[1] = Call("delete", f[1]))
         /\ SomeFailed(m.calls) => (userId \notin m.st.marker /\ m.wrote = {})

\* A migration whose replaceAll failed at the insert: the marker is unset.
C7_Witness ==
  /\ last.op = "migrateSubscriptionsToDB"
  /\ last.calls = <<DeleteOk, InsertFailed>>
  /\ last.userId \notin marker

\* Lists a caller may save to the cache: built in the forms, or loaded from
\* the cache before.
SavableLists == SubLists \cup {loadSubscriptionsLocal(St, k) : k \in UserKeys}

\* C8: saving a list to the cache under a key and loading that key yields
\* the saved list: same length and order, and per element the same id,
\* name, cost, cycle, status, category and renewal date.
C8_CacheRoundTrip ==
  \A subscriptions \in SavableLists, userKey \in UserKeys :
    LET saved == saveSubscriptionsLocal(St, subscriptions, userKey)
        loaded == loadSubscriptionsLocal(saved, userKey)
        viaFacade == saveSubscriptions(St, subscriptions, userKey, NoId, AllSucceed(2))
    IN /\ Len(loaded) = Len(subscriptions)
       /\ \A i \in DOMAIN subscriptions :
            loaded[i].id = subscriptions[i].id /\ SameFields(loaded[i], subscriptions[i])
       /\ \A out \in loadSubscriptions(viaFacade.st, userKey, NoId, AllSucceed(4)) :
            out.list = subscriptions

\* A load without userId read a two-element list that a save had stored.
C8_Witness ==
  /\ last.op = "loadSubscriptions"
  /\ last.userId = NoId
  /\ cache[last.userKey].kind = "json"
  /\ Len(cache[last.userKey].items) = 2

\* C9 (as claimed): a failed adapter operation returns something its caller
\* can tell from success: a failed list never returns what a successful
\* list of an owner without rows returns, and a failed replaceAll, upsertOne
\* or deleteOne returns false.
C9_FailureDistinguishable ==
  /\ (last.op = "loadSubscriptionsFromDB" /\ SomeFailed(last.calls)) =>
       last.list \notin loadSubscriptionsFromDB([St EXCEPT !.remote = {}], last.userId, TRUE)
  /\ (/\ last.op \in {"saveSubscriptionsToDB", "saveSubscriptionToDB",
                      "deleteSubscriptionFromDB"}
      /\ ~last.calls[Len(last.calls)].ok) => ~last.ok

\* C10 (as claimed): a subscription saved with a userId, or copied by the
\* migration, comes back from the next load for that owner under the id it
\* was created with.
C10_IdSurvivesRemoteSave ==
  [][(/\ last'.op = "loadSubscriptions"
      /\ last'.userId # NoId
      /\ last'.userId = last.userId
      /\ AllOk(last'.calls)
      /\ AllOk(last.calls) /\ Len(last.calls) > 0
      /\ last.op \in {"saveSubscriptions", "migrateSubscriptionsToDB"})
     => LET written == IF last.op = "saveSubscriptions" THEN last.subs
                       ELSE loadSubscriptionsLocal(St, last.userKey)
        IN \A i \in DOMAIN written : \E j \in DOMAIN last'.list :
             /\ last'.list[j].id = written[i].id
             /\ last'.list[j].name = written[i].name]_vars


\* ------------------------------------------------- claims: identity resolution
ProviderOps == {"import", "setSession", "getSession", "getUser"}
IsProviderCall(c) == c.op \in ProviderOps
ProviderCalls(calls) == SelectSeq(calls, IsProviderCall)
LocalIdentity(stored) ==
  IF stored.kind = "json" THEN [username |-> stored.username, id |-> NoId] ELSE Null

\* C11 (as claimed): a getCurrentUserAsync whose provider calls all succeed
\* returns the federated identity with its remote id when the auth client
\* holds a session, else the stored current user when it parses, else null;
\* it never returns the local identity while a session is held.
C11_FederatedWheneverSessionHeld ==
  [][(/\ last'.op = "getCurrentUserAsync"
      /\ AllOk(ProviderCalls(last'.calls)))
     => IF session' # NoSession
          THEN /\ last'.userId = session'
               /\ last'.userKey = EmailName(session')
          ELSE /\ last'.userId = NoId
               /\ last'.userKey = LocalIdentity(currentUser).username]_vars

RECURSIVE SumOver(_, _)
SumOver(S, f) ==
  IF S = {} THEN 0
  ELSE LET x == CHOOSE y \in S : TRUE IN f[x] + SumOver(S \ {x}, f)

\* What each subscription of `s` adds to a monthly amount, in twelfths.
MonthlyShare(s) ==
  [i \in DOMAIN s |-> IF s[i].cycle = "Monthly" THEN 12 * s[i].cost ELSE s[i].cost]
ActiveIn(s) == {i \in DOMAIN s : s[i].status = "Active"}

\* C13: the monthly-equivalent cost the dashboard shows is the sum over the
\* Active subscriptions of cost (Monthly) and cost/12 (Annually); Trial
\* subscriptions add nothing, the empty list gives 0, and the list
\* [{Active,Monthly,10},{Active,Annually,120},{Trial,Monthly,50}] gives 20.
C13_MonthlyEquivalentCost ==
  /\ view.op = "dashboard" =>
       LET s == view.subscriptions IN
         /\ view.total = SumOver(ActiveIn(s), MonthlyShare(s))
         /\ ActiveIn(s) = {} => view.total = 0
  /\ LET example == [i \in 1..3 |->
            [status |-> IF i = 3 THEN "Trial" ELSE "Active",
             cycle |-> IF i = 2 THEN "Annually" ELSE "Monthly",
             cost |-> IF i = 1 THEN 10 ELSE IF i = 2 THEN 120 ELSE 50]]
     IN calculateTotalMonthlyCost(example) = 12 * 20

\* The dashboard has computed over an Active Annually subscription and a
\* Trial Monthly one: the total is a twelfth of the annual cost.
C13_Witness ==
  /\ view.op = "dashboard"
  /\ Len(view.subscriptions) = 2
  /\ view.subscriptions[1].status = "Active"
  /\ view.subscriptions[1].cycle = "Annually"
  /\ view.subscriptions[2].status = "Trial"
  /\ view.subscriptions[2].cycle = "Monthly"
  /\ view.total = view.subscriptions[1].cost
  /\ view.total > 0

C15_CategoryAggregateComplete ==
  view.op = "dashboard" =>
    LET s == view.subscriptions IN
      /\ DOMAIN view.byCategory = Categories
      /\ Cardinality(DOMAIN view.byCategory) = 5
      /\ \A c \in Categories :
           view.byCategory[c] =
             SumOver({i \in ActiveIn(s) : s[i].category = c}, MonthlyShare(s))

\* The dashboard has computed over an Active and a Trial subscription of two
\* categories: the Active one's category has its amount, every other is 0.
C15_Witness ==
  /\ view.op = "dashboard"
  /\ Len(view.subscriptions) = 2
  /\ view.subscriptions[1].status = "Active"
  /\ view.subscriptions[2].status = "Trial"
  /\ view.subscriptions[1].category # view.subscriptions[2].category
  /\ view.byCategory[view.subscriptions[1].category] > 0
  /\ \A c \in Categories \ {view.subscriptions[1].category} : view.byCategory[c] = 0

\* C16: the renewal amount of the month viewed is the sum, over the Active
\* subscriptions whose stored renewal date has that year and month, of cost
\* (Monthly) and cost/12 (Annually); a Monthly subscription whose stored date
\* lies in another month adds nothing.
C16_MonthlyRenewalAmount ==
  view.op = "calendar" =>
    LET s == view.subscriptions
        year == getFullYear(view.now, view.tz)
        month == getMonth(view.now, view.tz)
        inMonth == {i \in ActiveIn(s) :
                      /\ getFullYear(s[i].renewalDate, view.tz) = year
                      /\ getMonth(s[i].renewalDate, view.tz) = month}
    IN view.renewal = SumOver(inMonth, MonthlyShare(s))

\* The calendar has computed over an Active Monthly subscription renewing in
\* another month and an Active Annually one renewing in the month viewed.
C16_Witness ==
  /\ view.op = "calendar"
  /\ Len(view.subscriptions) = 2
  /\ \A i \in 1..2 : view.subscriptions[i].status = "Active"
  /\ view.subscriptions[1].cycle = "Monthly"
  /\ LocalDay(view.subscriptions[1].renewalDate, view.tz) \div DaysPerMonth
       # LocalDay(view.now, view.tz) \div DaysPerMonth
  /\ view.subscriptions[2].cycle = "Annually"
  /\ LocalDay(view.subscriptions[2].renewalDate, view.tz) \div DaysPerMonth
       = LocalDay(view.now, view.tz) \div DaysPerMonth
  /\ view.renewal = view.subscriptions[2].cost

\* ------------------------------------------------ claims: notification settings
SettingsOf(userId) == {i \in DOMAIN settingsRows : settingsRows[i].user_id = userId}

\* C17: in every reachable state the table holds at most one settings row per
\* owner, whatever the interleaving of the calls' selects and writes; and a
\* call that selected no row but finds one at its insert returns false and
\* leaves the table as it is.
C17_OneSettingsRowPerOwner ==
  /\ \A userId \in UserIds : Cardinality(SettingsOf(userId)) <= 1
  /\ \A c \in CallIds :
       LET call == settingsCalls[c] IN
         (call.pc = "selected" /\ ~call.existing /\ SettingsOf(call.userId) # {})
           => \A ok \in BOOLEAN :
                LET w == writeSettings(settingsRows, call.settings, call.userId,
                                       call.existing, ok)
                IN ~w.ok /\ w.rows = settingsRows

\* A call whose select found no row has just returned false from an insert
\* the database rejected: the other tab's row is the owner's only one.
C17_Witness ==
  /\ last.op = "saveNotificationSettingsToDB"
  /\ ~last.ok
  /\ last.calls = <<Call("select", FALSE), Call("insert: duplicate key", FALSE)>>
  /\ Cardinality(SettingsOf(last.userId)) = 1

\* ------------------------------------------------- claims: marker and cache
\* C18: once the migration marker of an id is set it stays set, whatever
\* load, save, migration, login, logout, sign-in or identity resolution
\* comes next.
C18_MarkerNeverCleared ==
  [][marker \subseteq marker']_vars

\* A logout has just returned in a browser where the marker of u1 is set.
C18_Witness ==
  /\ last.op = "logoutUser"
  /\ "u1" \in marker
  /\ currentUser = NoCurrentUser
  /\ session = NoSession

\* C19: a migrateSubscriptionsToDB or a loadSubscriptions leaves every entry
\* of the local subscription cache as it was, whether the migration copied,
\* failed or was skipped and whatever the database answered.
C19_MigrationAndLoadKeepCache ==
  [][last'.op \in {"migrateSubscriptionsToDB", "loadSubscriptions"}
       => cache' = cache]_vars

\* A load has just migrated the cached list to the database and set the
\* marker; the cache entry it copied is still there.
C19_Witness ==
  /\ last.op = "loadSubscriptions"
  /\ "marker" \in last.wrote
  /\ last.userId \in marker
  /\ Len(last.list) > 0
  /\ cache[last.userKey] = JsonEntry(<<LegacyItem>>)

\* ------------------------------------------------ claims: migration retried
\* A browser session that only loads: the list page and the calendar call
\* loadSubscriptions on every visit.
NextRetry ==
  \/ Load

\* What the browser and the database may hold when the session begins: a
\* list cached under either owner key (saveSubscriptions falls back to the
\* cache under user.id), and rows the identity saved from another browser.
InitRetry ==
  /\ cache \in [UserKeys -> {NoEntry, CorruptEntry, JsonEntry(<<LegacyItem>>)}]
  /\ marker = {}
  /\ \E n \in 0..1 :
       /\ remote = IF n = 1 THEN InsertedRows(<<Sub1>>, "u1", 1) ELSE {}
       /\ nextUuid = 1 + n
  /\ currentUser = NoCurrentUser
  /\ oldData = NoEntry
  /\ session = "u1"
  /\ locationHash = "none"
  /\ view = NoView
  /\ settingsRows = <<>>
  /\ inFlight = [c \in Contexts |-> IdleFlight]
  /\ users = NoUsers
  /\ localSettings = NoLocalSettings
  /\ settingsCalls = [c \in CallIds |-> IdleCall]
  /\ last = [op |-> "init", userKey |-> "", userId |-> NoId, subs |-> <<>>,
             list |-> <<>>, ok |-> TRUE, calls |-> <<>>, wrote |-> {}]
  /\ logDetail = TRUE

\* A load of the signed-in identity under the owner key `alice` on which every
\* remote call returns without error.
LoadAllOk ==
  \E out \in loadSubscriptions(St, "alice", "u1", [i \in 1..4 |-> TRUE]) :
    /\ Commit(out.st)
    /\ Returned("loadSubscriptions", "alice", "u1", <<>>, out.list, TRUE,
                out.calls, out.wrote)

\* Loads keep being issued, and a load whose remote calls all succeed is not
\* put off for ever.
SpecRetry == InitRetry /\ [][NextRetry]_vars /\ WF_vars(LoadAllOk)

\* The load just returned went through migrateSubscriptionsToDB: the first
\* remote call after its select is the delete of saveSubscriptionsToDB.
RetriedMigration ==
  /\ Len(last.calls) >= 2
  /\ last.calls[2].op = "delete"

\* The load just returned was for an id whose marker was unset when it began.
LoadFoundMarkerUnset ==
  /\ last'.op = "loadSubscriptions"
  /\ last'.userId # NoId
  /\ last'.userId \notin marker

AttemptedExchange(calls) ==
  \E i \in DOMAIN calls : calls[i].op = "setSession"

\* C21 (as claimed): a getCurrentUserAsync that found tokens in the URL hash
\* and called setSession leaves no tokens in the hash, whether setSession
\* succeeded or failed, so the next resolution does not call setSession.
C21_ArtifactClearedAfterExchange ==
  [][(/\ last'.op = "getCurrentUserAsync"
      /\ locationHash = "tokens"
      /\ AttemptedExchange(last'.calls))
     => locationHash' # "tokens"]_vars

\* --------------------------------------------- claims: interleaved facade calls
\* A row without the id the database gave it.
RowFields(r) ==
  [name |-> r.name, cost |-> r.cost, renewal_date |-> r.renewal_date,
   cycle |-> r.cycle, status |-> r.status, category |-> r.category]
\* What the database holds for a user, ids aside.
Held(userId) == {RowFields(r) : r \in RowsOf(remote, userId)}
\* What a saveSubscriptionsToDB of `subscriptions` means the user to hold.
Intent(subscriptions) == {RowFields(r) : r \in InsertedRows(subscriptions, "u1", 1)}

\* Both contexts have returned from a saveSubscriptions for u1 that reported
\* success to its caller.
BothSavesSucceeded ==
  \A c \in Contexts :
    /\ inFlight[c].pc = "done"
    /\ inFlight[c].op = "saveSubscriptions"
    /\ inFlight[c].userId = "u1"
    /\ inFlight[c].ok

\* C22: when two saveSubscriptions calls for one user, each a delete of all
\* rows followed by an insert, have both reported success, the database
\* holds the list of one of them or the records of both; the mix is reached
\* (C22_Witness) and neither call is told of the other.
C22_SavesLeaveOneListOrBoth ==
  BothSavesSucceeded =>
    LET L1 == Intent(inFlight["tab1"].subs)
        L2 == Intent(inFlight["tab2"].subs)
    IN Held("u1") \in {L1, L2, L1 \cup L2}

\* Both saves reported success, their lists differ, and the database holds
\* neither list but the records of both.
C22_Witness ==
  /\ BothSavesSucceeded
  /\ inFlight["tab1"].subs = <<Sub1>>
  /\ inFlight["tab2"].subs = <<Sub2>>
  /\ Held("u1") # Intent(<<Sub1>>)
  /\ Held("u1") # Intent(<<Sub2>>)
  /\ Held("u1") = Intent(<<Sub1>>) \cup Intent(<<Sub2>>)

\* The context is in a loadSubscriptions for u1 that went into
\* migrateSubscriptionsToDB.
LoadMigrating(c) ==
  /\ inFlight[c].op = "loadSubscriptions"
  /\ inFlight[c].userId = "u1"
  /\ inFlight[c].pc \in {"delete", "insert", "reselect"}

\* C23: nothing but the flag and the answer of its own select decides whether
\* a load migrates: a load goes from the answer of its first select into
\* saveSubscriptionsToDB exactly when that answer is empty, the flag is unset
\* at that moment and the cache under its key holds a list, whatever the
\* other context is in the middle of; so two first loads can both be inside
\* the migration (C23_Witness).
C23_OnlyMarkerGuardsMigration ==
  [][\A c \in Contexts :
       (inFlight[c].pc = "decide" /\ inFlight'[c] # inFlight[c])
       => (inFlight'[c].pc = "delete"
             <=> /\ Len(inFlight[c].list) = 0
                 /\ inFlight[c].userId \notin marker
                 /\ Len(loadSubscriptionsLocal(St, inFlight[c].userKey)) > 0)]_vars

\* Two loads of the unmigrated identity both found the flag unset, both
\* decided to migrate and both ran saveSubscriptionsToDB to its end.
C23_Witness ==
  /\ \A c \in Contexts : LoadMigrating(c) /\ inFlight[c].pc = "reselect" /\ inFlight[c].ok
  /\ "u1" \in marker

\* The context has come out of a migrateSubscriptionsToDB of the cache under
\* `alice` for u1, on its own or inside a load, whose copy succeeded.
MigrationSucceeded(c) ==
  /\ inFlight[c].userId = "u1"
  /\ inFlight[c].userKey = "alice"
  /\ inFlight[c].ok
  /\ Len(inFlight[c].subs) > 0
  /\ \/ inFlight[c].op = "migrateSubscriptionsToDB" /\ inFlight[c].pc = "done"
     \/ inFlight[c].op = "loadSubscriptions" /\ inFlight[c].pc \in {"reselect", "done"}

\* How many rows of the user carry the fields of a cached subscription.
Copies(sub) ==
  Cardinality({r \in RowsOf(remote, "u1") :
                 RowFields(r) \in Intent(<<sub>>)})

\* C26 (as claimed): once the migrations the two contexts ran for the
\* identity have both succeeded, the database holds every cached
\* subscription exactly once, in whatever order their deletes and inserts
\* were served.
C26_ConcurrentMigrationsCopyOnce ==
  (\A c \in Contexts : MigrationSucceeded(c))
    => \A c \in Contexts : \A i \in DOMAIN inFlight[c].subs :
         Copies(inFlight[c].subs[i]) = 1

\* ------------------------------------------- claims: remote rows and migration
\* What `rows` holds for a user, ids aside.
HeldIn(rows, userId) == {RowFields(r) : r \in RowsOf(rows, userId)}

\* C24 (as claimed): a migrateSubscriptionsToDB or a loadSubscriptions takes
\* no subscription out of the database: what the database held for a user
\* before the call it holds after it; that is so too for a migration run with
\* the flag unset, a cached list and rows already in the database.
C24_MigrationKeepsRemoteRows ==
  [][last'.op \in {"migrateSubscriptionsToDB", "loadSubscriptions"}
     => \A userId \in UserIds :
          HeldIn(remote, userId) \subseteq HeldIn(remote', userId)]_vars

\* ------------------------------------------------ claims: read your writes
\* Two lists hold the same subscriptions, ids and order aside.
SameSubscriptions(a, b) ==
  /\ Len(a) = Len(b)
  /\ \A i \in DOMAIN a : \E j \in DOMAIN b : SameFields(a[i], b[j])
  /\ \A j \in DOMAIN b : \E i \in DOMAIN a : SameFields(a[i], b[j])

\* C25 (as claimed): a loadSubscriptions(userKey, userId) that follows a
\* saveSubscriptions(L, userKey, userId) with nothing in between returns the
\* subscriptions of L, whether the remote calls of either succeeded or
\* failed and whether the flag is set.
C25_ReadYourWrites ==
  [][(/\ last.op = "saveSubscriptions"
      /\ last'.op = "loadSubscriptions"
      /\ last'.userKey = last.userKey
      /\ last'.userId = last.userId)
     => SameSubscriptions(last'.list, last.subs)]_vars

\* --------------------------------------------------- claims: cache partition
\* const userKey = user.id || user.username, as the views compute it.
OwnerKey(user) == IF user.id # NoId THEN user.id ELSE user.username

\* C27 (as claimed): whenever getCurrentUserAsync resolves a federated
\* identity, the key it gives to migrateSubscriptionsToDB is the key the
\* views give to loadSubscriptions and saveSubscriptions for that identity.
C27_MigrationReadsOwnerPartition ==
  \A p \in ResolvePlans, f \in FailurePlans(2) :
    LET r == getCurrentUserAsync(St, session, currentUser, locationHash, p, f) IN
    (r.user # Null /\ r.user.id # NoId) => r.migrated = OwnerKey(r.user)

\* ------------------------------------------------ claims: settings isolation
\* C28 (as claimed): owner u2 never saves settings; whatever the other owners
\* saved, through the database or through localStorage, a
\* loadNotificationSettings for u2 returns the defaults.
C28_SettingsNotSharedBetweenOwners ==
  [][(last'.op = "loadNotificationSettings" /\ last'.userId = "u2")
     => last'.list = <<DefaultSettings>>]_vars

\* ---------------------------------------------------- claims: legacy hand-over
\* C29: in every reachable state, for every user name: a loginUser that
\* succeeds leaves no `subscriptions` entry, leaves the user's own cache
\* entry as it was when there was one and else gives it the legacy data,
\* and touches no other user's entry; a loginUser that fails changes neither
\* the caches nor the `currentUser` entry.
C29_LegacyHandOver ==
  \A username \in UserKeys, found \in BOOLEAN :
    LET r == loginUser(St, currentUser, oldData, username, found) IN
    IF r.success
      THEN /\ r.oldData = NoEntry
           /\ r.st.cache[username] =
                IF cache[username].kind # "absent" THEN cache[username] ELSE oldData
           /\ \A k \in UserKeys \ {username} : r.st.cache[k] = cache[k]
           /\ r.currentUser = StoredUser(username)
           /\ r.st.remote = remote /\ r.st.marker = marker
      ELSE /\ r.st = St
           /\ r.oldData = oldData
           /\ r.currentUser = currentUser

\* alice has logged in in a browser that held the list of the older version
\* and a list of her own: hers is still there, the old one is gone.
C29_Witness ==
  /\ last.op = "loginUser"
  /\ currentUser = StoredUser("alice")
  /\ oldData = NoEntry
  /\ cache["alice"].kind = "json"
  /\ cache["alice"] # JsonEntry(<<LegacyItem>>)

\* ------------------------------------------------------ claims: user registry
\* No two users of the registry have the same name in lower case.
NoDuplicateUsers(list) ==
  \A i, j \in DOMAIN list :
    i # j => toLowerCase(list[i].username) # toLowerCase(list[j].username)

\* C30: in every state reached by registerUser calls no two registered users
\* have the same user name compared without case; and a registerUser call is
\* rejected exactly for an empty name, a password of fewer than 4 characters
\* or a name already registered, and then leaves the registry as it was.
C30_RegistryNamesUnique ==
  /\ NoDuplicateUsers(getUsers(users))
  /\ \A username \in Usernames, password \in Passwords :
       LET r == registerUser(users, username, password)
           taken == \E i \in DOMAIN getUsers(users) :
                      toLowerCase(getUsers(users)[i].username) = toLowerCase(username)
       IN /\ ~r.success <=> \/ trim(username) = ""
                            \/ length(password) < MinPasswordLength
                            \/ taken
          /\ ~r.success => r.users = users
          /\ r.success => NoDuplicateUsers(getUsers(r.users))

\* With alice and bob registered, a registration of Alice has just been
\* rejected as a duplicate and the registry is as it was.
C30_Witness ==
  /\ last.op = "registerUser"
  /\ last.userKey = "Alice"
  /\ ~last.ok
  /\ last.list = <<"Username already exists">>
  /\ Len(getUsers(users)) = 2
  /\ \E i \in DOMAIN getUsers(users) : getUsers(users)[i].username = "alice"
====
